---- MODULE Spec2Model ----
(***************************************************************************)
(* Model of the persistent command server (src/quick-aws/plugin.py and     *)
(* src/quick-aws/client.py) and of the argument-discovery planner          *)
(* (src/grabber), with the functions of src/grabber/utils.py and the        *)
(* change set gate of src/cloudformation_deploy.                            *)
(*                                                                          *)
(* Specifications:                                                          *)
(*   Spec             supervisor, worker pool and dispatch socketpair       *)
(*   FairSpec         Spec with the fairness the scheduler and timers give  *)
(*   WorkerSpec       one worker serving successive requests, and the       *)
(*                    client of each request                                *)
(*   PlannerSpec      how_to_get queries on one Service                     *)
(*   PlannerFairSpec  PlannerSpec where the running call keeps stepping     *)
(*   CheckerSpec      one worker's main thread and its liveness thread      *)
(*   CheckerFairSpec  CheckerSpec where both threads keep being scheduled   *)
(*   KillSpec         Spec where a worker may be ended from outside         *)
(*   StartSpec        supervisors started side by side on one socket path   *)
(*   UtilSpec         singularise, KeySpec and OutputPath called directly   *)
(*   DeploySpec       one API call under the patched _make_api_call         *)
(*   ReloadSpec       a supervisor re-executed on SIGUSR1 and its workers   *)
(*   TailSpec         the Event Tailer across the polls of one waiter       *)
(***************************************************************************)
EXTENDS Integers, Sequences, FiniteSets, TLC

(***************************************************************************)
(* Bounds                                                                   *)
(***************************************************************************)
\* number of client invocations that may connect to the supervisor
MaxClients == 2

Clients == 1..MaxClients
\* queue_work forks at most once per accepted client
Workers == 1..MaxClients

NoClient == 0
NoWorker == 0

VARIABLES
    \* ---- supervisor / pool (plugin.py State, WorkerState.run) ----
    semaphore,      \* value of State.semaphore (multiprocessing.Semaphore)
    dispatch,       \* client fds in flight on the dispatch socketpair, FIFO
    worker_pids,    \* State.worker_pids
    spc,            \* supervisor's position in State.run / State.queue_work
    client,         \* the accepted client the supervisor is queueing
    forked,         \* pid returned by os.fork(), not yet added to worker_pids
    zombies,        \* exited workers not yet reaped by waitpid
    backlog,        \* clients connected to the listening socket, not accepted
    wpc,            \* each worker's position in WorkerState.run
    sockfd,         \* the client fd each worker holds (sockfd in run)
    cstate,         \* what happened to each client's connection
    recvBy,         \* history: the workers whose recvfds returned the client
    socket_path,    \* what is at the socket path in the file system
    expired,        \* processes whose SIGALRM timer has run out, handler
                    \* not yet run (Supervisor, or a worker)
    rearmed,        \* history: timeout_handler restarted the supervisor's timer
    cresult         \* how each client process ended, when the server failed it

poolVars == <<semaphore, dispatch, worker_pids, spc, client, forked, zombies,
              backlog, wpc, sockfd, cstate, recvBy, socket_path, expired,
              rearmed, cresult>>

VARIABLES
    \* ---- one worker's request handling (plugin.py WorkerState.work/_work,
    \*      client.py main) ----
    rpc,            \* the worker's position in work / _work
    nreq,           \* requests this worker has taken from the dispatch socket
    req,            \* the request being handled: who sent it and what
    pid,            \* os.getpid() of the worker
    environ,        \* the worker's os.environ
    cwd,            \* the worker's current working directory
    fdtable,        \* the worker's descriptor table: fd -> open file (0: closed)
    fd_cache,       \* WorkerState.fd_cache: dest -> saved copy (-1: absent)
    exit_stack,     \* callbacks of work's ExitStack, last pushed last
    fds,            \* the descriptors returned by recvfds(sock, 3)
    args,           \* the list left of the parsed frame
    exit_code,      \* work's exit_code
    sockout,        \* the sendall calls made on the client socket, in order
    sigusr1,        \* SIGUSR1 sent to the supervisor during this request
    ran,            \* what the driver was run with, if it was
    base,           \* history: environ, cwd before the request and the files
                    \* behind fds 0, 1, 2 before the worker's first request
    cpc,            \* client.main's position
    client_exit,    \* exit status of the client process
    buffered,       \* the streams (1: sys.stdout, 2: sys.stderr) that hold
                    \* output of the request not yet written to a descriptor
    flushed_to      \* history: the file each stream's buffer was flushed to

workVars == <<rpc, nreq, req, pid, environ, cwd, fdtable, fd_cache, exit_stack,
              fds, args, exit_code, sockout, sigusr1, ran, base, cpc,
              client_exit, buffered, flushed_to>>

VARIABLES
    service,      \* index of the Service the completer plans for
    cache,        \* Method.cache[Args()] of every Method: (call, ex, uk) entries
    stack,        \* frames of the how_to_get / how_to_call recursion
    ret,          \* value the frame popped last returned to its caller
    result,       \* what the last top-level how_to_get returned
    nqueries      \* top-level how_to_get calls made so far

planVars == <<service, cache, stack, ret, result, nqueries>>

VARIABLES
    \* ---- one worker's main thread and liveness thread (plugin.py
    \*      WorkerState.run, work, socket_checker) ----
    run_pc,         \* the main thread's position in run / work
    served,         \* client sockets this worker has received in run
    current_sock,   \* WorkerState.current_sock (0: None)
    sock_event,     \* WorkerState.sock_event is set
    should_quit,    \* WorkerState.should_quit
    checker_pc,     \* the liveness thread's position in socket_checker
    sock,           \* socket_checker's local sock (0: None)
    sock_open,      \* per request: work's socket object is not yet closed
    peer,           \* per request: the client's end of the connection
    sigterm,        \* SIGTERM sent to the worker, handler not yet run
    alive,          \* the worker process: running, exited or killed
    cancelled       \* history: requests whose client closed while they
                    \* were being serviced

checkVars == <<run_pc, served, current_sock, sock_event, should_quit,
               checker_pc, sock, sock_open, peer, sigterm, alive, cancelled>>

VARIABLES
    \* ---- one call of a function of src/grabber/utils.py ----
    uop,            \* the function called last
    uin,            \* its arguments
    uout            \* what it returned
utilVars == <<uop, uin, uout>>

VARIABLES
    \* ---- one botocore API call under the patch of
    \*      src/cloudformation_deploy/__init__.py ----
    dpc,            \* position in _make_api_call / before_execute_changeset
    dagent,         \* the client's user agent string ends with cloudformation.deploy
    dop,            \* the service and operation of the call
    denv,           \* os.environ: AWS_EXECUTE_CHANGESET
    dleft,          \* changes of the change set still to be printed
    dhist           \* history: the variable at the call, the operations the
                    \* original _make_api_call was invoked with, seconds slept
deployVars == <<dpc, dagent, dop, denv, dleft, dhist>>

VARIABLES
    \* ---- supervisors started side by side (plugin.py State.run,
    \*      State.cleanup; client.py main) ----
    sup_pc,         \* each supervisor's position in State.run
    path_socket,    \* the supervisor whose listening socket the socket path
                    \* names (0: nothing is at the path)
    sup_hist        \* history: the supervisor reached its accept loop, and
                    \* the sockets whose path it unlinked
startVars == <<sup_pc, path_socket, sup_hist>>

VARIABLES
    \* ---- a supervisor that re-executes itself on SIGUSR1, and the workers
    \*      it forked before (plugin.py sigusr1_handler, queue_work,
    \*      WorkerState.run) ----
    r_sup,          \* the supervisor's position
    r_sig,          \* SIGUSR1 sent to the supervisor, handler not yet run
    r_stack,        \* the supervisor's State.exit_stack, last pushed last
    r_path,         \* the socket path: the listener bound to it, or absent
    r_listen,       \* the old supervisor's listening socket is open
    r_send,         \* the processes that hold the send end of the old
                    \* dispatch socketpair open (0: the supervisor)
    r_disp,         \* client fds in flight on the old dispatch socketpair
    r_newq,         \* client fds the new supervisor put on its socketpair
    r_cur,          \* the client the supervisor is queueing
    r_w,            \* each old worker's position
    r_wc,           \* the client each old worker services
    r_c             \* each client: who accepted it and what became of it
reloadVars == <<r_sup, r_sig, r_stack, r_path, r_listen, r_send, r_disp,
                r_newq, r_cur, r_w, r_wc, r_c>>

VARIABLES
    \* ---- the Event Tailer of one waiter (src/cloudformation_deploy/
    \*      __init__.py EventTailer) and the events of its stack ----
    stack_events,   \* the stack's events, oldest first; EventId is the position
    started,        \* EventTailer.started
    last_event,     \* EventTailer.last_event (0: None)
    polls,          \* calls of EventTailer.invoke so far
    printed         \* history: the events printed, in the order printed, each
                    \* with the poll that printed it
tailVars == <<stack_events, started, last_event, polls, printed>>

vars == <<poolVars, workVars, planVars, checkVars, utilVars, deployVars, startVars, reloadVars, tailVars>>

(***************************************************************************)
(* client.main: int(client.recv(1024).decode() or '1')                      *)
(***************************************************************************)
Whitespace == (9..13) \cup (28..32)
Digits == 48..57
RECURSIVE lstrip(_)
lstrip(b) == IF b # <<>> /\ Head(b) \in Whitespace THEN lstrip(Tail(b)) ELSE b
RECURSIVE rstrip(_)
rstrip(b) == IF b # <<>> /\ b[Len(b)] \in Whitespace
               THEN rstrip(SubSeq(b, 1, Len(b) - 1)) ELSE b
unsigned(b) == IF b # <<>> /\ Head(b) \in {43, 45} THEN Tail(b) ELSE b
\* digits, with single underscores between digits
is_digits(b) ==
    /\ b # <<>>
    /\ \A i \in 1..Len(b) :
        \/ b[i] \in Digits
        \/ /\ b[i] = 95
           /\ i > 1 /\ i < Len(b)
           /\ b[i - 1] \in Digits /\ b[i + 1] \in Digits
RECURSIVE digits_value(_)
digits_value(b) ==
    IF b = <<>> THEN 0
    ELSE IF b[Len(b)] = 95 THEN digits_value(SubSeq(b, 1, Len(b) - 1))
    ELSE 10 * digits_value(SubSeq(b, 1, Len(b) - 1)) + (b[Len(b)] - 48)
\* int(s) accepts s
is_int_literal(b) == is_digits(unsigned(rstrip(lstrip(b))))
int_value(b) ==
    LET t == rstrip(lstrip(b))
    IN  IF Head(t) = 45 THEN 0 - digits_value(unsigned(t)) ELSE digits_value(unsigned(t))

\* the exit status of the client process given what recv returned: main's
\* value through sys.exit, or 1 when decode or int raise
client_exit_status(data) ==
    IF data = <<>> THEN 1
    ELSE IF is_int_literal(data) THEN int_value(data) % 256
    ELSE 1

(***************************************************************************)
(* Semaphore (multiprocessing.Semaphore): release increments; the           *)
(* non-blocking acquire decrements when positive and reports success.       *)
(***************************************************************************)
sem_release(s) == s + 1
sem_can_acquire(s) == s > 0
sem_acquire(s) == IF s > 0 THEN s - 1 ELSE s

(***************************************************************************)
(* recvfds on the dispatch socketpair: one recvmsg takes the byte at the    *)
(* head of the stream together with the fd attached to it; the message is   *)
(* consumed.                                                                *)
(***************************************************************************)
recvfds_peek_rest(q) == q
recvfds_fd(q) == Head(q)
recvfds_rest(q) == Tail(q)
sendfds(q, fd) == Append(q, fd)

(***************************************************************************)
(* Init: State.__init__ done, State.run called with a socket path that    *)
(* exists (another file) or does not.  No worker has been forked.           *)
(***************************************************************************)
\* the supervisor, where timers of processes are named
Supervisor == 0
SocketPaths == {"absent", "foreign"}
\* os.path.exists(socket_path)
os_path_exists_never(path) == FALSE
os_path_exists(path) == path # "absent"
\* State.cleanup in the supervisor (self.pid == os.getpid())
cleanup(path) == IF os_path_exists(path) THEN "absent" ELSE path
pid_is_self_any(p) == TRUE
\* State.cleanup's test self.pid == os.getpid() in process p: self.pid was
\* set in State.__init__, by the supervisor
pid_is_self(p) == p = Supervisor
\* State.cleanup run in process p
cleanup_by(p, path) == IF pid_is_self(p) THEN cleanup(path) ELSE path
\* timeouter's condition in State.run: lambda: not self.worker_pids
timeout_condition_none(pids) == TRUE
timeout_condition(pids) == pids = {}
\* sigchld_handler: self.worker_pids -= {pid} for the pids waitpid returned
reap_none(pids, dead) == pids
reap(pids, dead) == pids \ dead
NoResult == [t |-> "none", status |-> 0]

PoolInitWith(path) ==
    /\ socket_path = path
    /\ expired = {}
    /\ rearmed = FALSE
    /\ cresult = [c \in Clients |-> NoResult]
    /\ semaphore = 0
    /\ dispatch = <<>>
    /\ worker_pids = {}
    /\ spc = "start"
    /\ client = NoClient
    /\ forked = NoWorker
    /\ zombies = {}
    /\ backlog = <<>>
    /\ wpc = [w \in Workers |-> "unborn"]
    /\ sockfd = [w \in Workers |-> NoClient]
    /\ cstate = [c \in Clients |-> "new"]
    /\ recvBy = [c \in Clients |-> {}]

PoolInit == \E path \in SocketPaths : PoolInitWith(path)

\* the supervisor process has left State.run (FileExistsError, idle timeout
\* or SIGTERM)
SupervisorGone == spc \in {"raised", "exited", "terminated"}

\* State.run: FileExistsError when the path exists; otherwise the signal
\* handlers, bind, listen, and the first accept with the idle alarm armed
SupervisorStart ==
    /\ spc = "start"
    /\ IF os_path_exists(socket_path)
         THEN /\ spc' = "raised"
              /\ UNCHANGED socket_path
         ELSE /\ spc' = "accept"
              /\ socket_path' = "bound"
    /\ UNCHANGED <<workVars, planVars, checkVars, utilVars, deployVars, startVars, reloadVars, tailVars>>
    /\ UNCHANGED <<expired, rearmed, cresult>>
    /\ UNCHANGED <<semaphore, dispatch, worker_pids, client, forked, zombies,
                   backlog, wpc, sockfd, cstate, recvBy>>

\* inactivity_timeout seconds go by while every process is blocked (the
\* supervisor in accept with no connection pending, each worker in recvfds
\* with nothing queued, or in the driver): the alarms armed by the
\* processes blocked in timeouter run out.  The steps between two blocking
\* calls take no time on the scale of the timeout.
TimeoutElapses ==
    /\ spc \in {"accept", "exited", "terminated"}
    /\ backlog = <<>>
    /\ \A w \in Workers : wpc[w] \in {"unborn", "recv", "work", "exited"}
    /\ dispatch = <<>> \/ \A w \in Workers : wpc[w] # "recv"
    /\ expired' = expired \cup {w \in Workers : wpc[w] = "recv"}
                          \cup (IF spc = "accept" THEN {Supervisor} ELSE {})
    /\ UNCHANGED <<workVars, planVars, checkVars, utilVars, deployVars, startVars, reloadVars, tailVars>>
    /\ UNCHANGED <<socket_path, rearmed, cresult>>
    /\ UNCHANGED <<semaphore, dispatch, worker_pids, spc, client, forked,
                   zombies, backlog, wpc, sockfd, cstate, recvBy>>

(***************************************************************************)
(* Client: client.main connects to the socket path.                         *)
(***************************************************************************)
Connect(c) ==
    /\ cstate[c] = "new"
    /\ spc # "start"
    /\ ~SupervisorGone
    /\ backlog' = Append(backlog, c)
    /\ cstate' = [cstate EXCEPT ![c] = "connected"]
    /\ UNCHANGED <<workVars, planVars, checkVars, utilVars, deployVars, startVars, reloadVars, tailVars>>
    /\ UNCHANGED <<socket_path, expired, rearmed, cresult>>
    /\ UNCHANGED <<semaphore, dispatch, worker_pids, spc, client, forked,
                   zombies, wpc, sockfd, recvBy>>

(***************************************************************************)
(* Supervisor: State.run accept loop                                        *)
(***************************************************************************)
\* server.accept() returns; timeouter's finally disarms the alarm
Accept ==
    /\ spc = "accept"
    /\ backlog # <<>>
    /\ client' = Head(backlog)
    /\ backlog' = Tail(backlog)
    /\ cstate' = [cstate EXCEPT ![Head(backlog)] = "accepted"]
    /\ spc' = "acquire"
    /\ expired' = expired \ {Supervisor}
    /\ UNCHANGED <<workVars, planVars, checkVars, utilVars, deployVars, startVars, reloadVars, tailVars>>
    /\ UNCHANGED <<socket_path, rearmed, cresult>>
    /\ UNCHANGED <<semaphore, dispatch, worker_pids, forked, zombies, wpc,
                   sockfd, recvBy>>

\* the alarm fires in accept: timeout_handler raises TimeoutError when
\* worker_pids is empty (State.run returns, the exit stack runs cleanup and
\* closes the listening and the dispatch socket), otherwise it re-arms the
\* alarm and accept resumes
SupervisorAlarm ==
    /\ spc = "accept"
    /\ Supervisor \in expired
    /\ expired' = expired \ {Supervisor}
    /\ IF timeout_condition(worker_pids)
         THEN /\ spc' = "exited"
              /\ socket_path' = cleanup(socket_path)
              /\ UNCHANGED rearmed
         ELSE /\ rearmed' = TRUE
              /\ UNCHANGED <<spc, socket_path>>
    /\ UNCHANGED <<workVars, planVars, checkVars, utilVars, deployVars, startVars, reloadVars, tailVars>>
    /\ UNCHANGED cresult
    /\ UNCHANGED <<semaphore, dispatch, worker_pids, client, forked, zombies,
                   backlog, wpc, sockfd, cstate, recvBy>>

\* SIGTERM delivered to the supervisor: the handler raises SystemExit at
\* whatever point State.run has reached and the exit stack runs cleanup
\* and closes the dispatch socket and the listening socket
SupervisorSigterm ==
    /\ spc \notin {"start", "raised", "exited", "terminated"}
    /\ spc' = "terminated"
    /\ socket_path' = cleanup(socket_path)
    /\ expired' = expired \ {Supervisor}
    /\ UNCHANGED <<workVars, planVars, checkVars, utilVars, deployVars, startVars, reloadVars, tailVars>>
    /\ UNCHANGED <<rearmed, cresult>>
    /\ UNCHANGED <<semaphore, dispatch, worker_pids, client, forked, zombies,
                   backlog, wpc, sockfd, cstate, recvBy>>

\* queue_work: if self.semaphore.acquire(False)
QueueWorkAcquire ==
    /\ spc = "acquire"
    /\ IF sem_can_acquire(semaphore)
         THEN /\ semaphore' = sem_acquire(semaphore)
              /\ spc' = "release"
         ELSE /\ semaphore' = semaphore
              /\ spc' = "fork"
    /\ UNCHANGED <<workVars, planVars, checkVars, utilVars, deployVars, startVars, reloadVars, tailVars>>
    /\ UNCHANGED <<socket_path, expired, rearmed, cresult>>
    /\ UNCHANGED <<dispatch, worker_pids, client, forked, zombies, backlog,
                   wpc, sockfd, cstate, recvBy>>

\* queue_work: self.semaphore.release()  ("reset it")
QueueWorkRelease ==
    /\ spc = "release"
    /\ semaphore' = sem_release(semaphore)
    /\ spc' = "send"
    /\ UNCHANGED <<workVars, planVars, checkVars, utilVars, deployVars, startVars, reloadVars, tailVars>>
    /\ UNCHANGED <<socket_path, expired, rearmed, cresult>>
    /\ UNCHANGED <<dispatch, worker_pids, client, forked, zombies, backlog,
                   wpc, sockfd, cstate, recvBy>>

\* queue_work: pid := os.fork(); the child runs WorkerState.run
QueueWorkFork ==
    /\ spc = "fork"
    /\ \E w \in Workers :
        /\ wpc[w] = "unborn"
        /\ \A v \in Workers : v < w => wpc[v] # "unborn"
        /\ wpc' = [wpc EXCEPT ![w] = "forked"]
        /\ forked' = w
    /\ spc' = "add"
    /\ UNCHANGED <<workVars, planVars, checkVars, utilVars, deployVars, startVars, reloadVars, tailVars>>
    /\ UNCHANGED <<socket_path, expired, rearmed, cresult>>
    /\ UNCHANGED <<semaphore, dispatch, worker_pids, client, zombies, backlog,
                   sockfd, cstate, recvBy>>

\* queue_work: self.worker_pids.add(pid)
QueueWorkAdd ==
    /\ spc = "add"
    /\ worker_pids' = worker_pids \cup {forked}
    /\ forked' = NoWorker
    /\ spc' = "send"
    /\ UNCHANGED <<workVars, planVars, checkVars, utilVars, deployVars, startVars, reloadVars, tailVars>>
    /\ UNCHANGED <<socket_path, expired, rearmed, cresult>>
    /\ UNCHANGED <<semaphore, dispatch, client, zombies, backlog, wpc, sockfd,
                   cstate, recvBy>>

\* queue_work: sendfds(self.sock, [sock.fileno()]); return True
QueueWorkSend ==
    /\ spc = "send"
    /\ dispatch' = sendfds(dispatch, client)
    /\ cstate' = [cstate EXCEPT ![client] = "queued"]
    /\ client' = NoClient
    /\ spc' = "accept"
    /\ UNCHANGED <<workVars, planVars, checkVars, utilVars, deployVars, startVars, reloadVars, tailVars>>
    /\ UNCHANGED <<socket_path, expired, rearmed, cresult>>
    /\ UNCHANGED <<semaphore, worker_pids, forked, zombies, backlog, wpc,
                   sockfd, recvBy>>

\* sigchld_handler: for pid in waitpids(): self.worker_pids -= {pid}
SigchldHandler ==
    /\ ~SupervisorGone
    /\ zombies # {}
    /\ worker_pids' = reap(worker_pids, zombies)
    /\ zombies' = {}
    /\ UNCHANGED <<workVars, planVars, checkVars, utilVars, deployVars, startVars, reloadVars, tailVars>>
    /\ UNCHANGED <<socket_path, expired, rearmed, cresult>>
    /\ UNCHANGED <<semaphore, dispatch, spc, client, forked, backlog, wpc,
                   sockfd, cstate, recvBy>>

(***************************************************************************)
(* Worker: WorkerState.run                                                  *)
(***************************************************************************)
\* queue_work in the child: os.setsid(); self.exit_stack.close(): the
\* inherited callbacks run (cleanup, the listening socket, the send end of
\* the dispatch socketpair); then self.worker.run(...)
WorkerCloseStack(w) ==
    /\ wpc[w] = "forked"
    /\ socket_path' = cleanup_by(w, socket_path)
    /\ wpc' = [wpc EXCEPT ![w] = "release"]
    /\ UNCHANGED <<workVars, planVars, checkVars, utilVars, deployVars, startVars, reloadVars, tailVars>>
    /\ UNCHANGED <<expired, rearmed, cresult>>
    /\ UNCHANGED <<semaphore, dispatch, worker_pids, spc, client, forked,
                   zombies, backlog, sockfd, cstate, recvBy>>

\* self.semaphore.release()  ("available"); then blocks in recvfds
WorkerRelease(w) ==
    /\ wpc[w] = "release"
    /\ semaphore' = sem_release(semaphore)
    /\ wpc' = [wpc EXCEPT ![w] = "recv"]
    /\ UNCHANGED <<workVars, planVars, checkVars, utilVars, deployVars, startVars, reloadVars, tailVars>>
    /\ UNCHANGED <<socket_path, expired, rearmed, cresult>>
    /\ UNCHANGED <<dispatch, worker_pids, spc, client, forked, zombies,
                   backlog, sockfd, cstate, recvBy>>

\* sockfd = recvfds(self.sock, 1)[0] returns a client fd
WorkerRecv(w) ==
    /\ wpc[w] = "recv"
    /\ dispatch # <<>>
    /\ sockfd' = [sockfd EXCEPT ![w] = recvfds_fd(dispatch)]
    /\ dispatch' = recvfds_rest(dispatch)
    /\ recvBy' = [recvBy EXCEPT ![recvfds_fd(dispatch)] = @ \cup {w}]
    /\ cstate' = [cstate EXCEPT ![recvfds_fd(dispatch)] = "received"]
    /\ wpc' = [wpc EXCEPT ![w] = "got"]
    /\ UNCHANGED <<workVars, planVars, checkVars, utilVars, deployVars, startVars, reloadVars, tailVars>>
    /\ UNCHANGED <<socket_path, expired, rearmed, cresult>>
    /\ UNCHANGED <<semaphore, worker_pids, spc, client, forked, zombies,
                   backlog>>

\* the inactivity alarm fires while blocked in recvfds: TimeoutError
WorkerTimeout(w) ==
    /\ wpc[w] = "recv"
    /\ w \in expired
    /\ wpc' = [wpc EXCEPT ![w] = "quit"]
    /\ UNCHANGED <<workVars, planVars, checkVars, utilVars, deployVars, startVars, reloadVars, tailVars>>
    /\ UNCHANGED <<socket_path, expired, rearmed, cresult>>
    /\ UNCHANGED <<semaphore, dispatch, worker_pids, spc, client, forked,
                   zombies, backlog, sockfd, cstate, recvBy>>

\* recvfds reads end of file (every send end closed, nothing queued): EOFError
WorkerEOF(w) ==
    /\ wpc[w] = "recv"
    /\ SupervisorGone
    /\ dispatch = <<>>
    /\ wpc' = [wpc EXCEPT ![w] = "quit"]
    /\ UNCHANGED <<workVars, planVars, checkVars, utilVars, deployVars, startVars, reloadVars, tailVars>>
    /\ UNCHANGED <<socket_path, expired, rearmed, cresult>>
    /\ UNCHANGED <<semaphore, dispatch, worker_pids, spc, client, forked,
                   zombies, backlog, sockfd, cstate, recvBy>>

\* the inactivity alarm fires after recvfds has returned the fd and before
\* timeouter's finally disarms it: the handler raises TimeoutError in run
WorkerLateAlarm(w) ==
    /\ wpc[w] = "got"
    /\ w \in expired
    /\ wpc' = [wpc EXCEPT ![w] = "quit"]
    /\ UNCHANGED <<workVars, planVars, checkVars, utilVars, deployVars, startVars, reloadVars, tailVars>>
    /\ UNCHANGED <<socket_path, expired, rearmed, cresult>>
    /\ UNCHANGED <<semaphore, dispatch, worker_pids, spc, client, forked,
                   zombies, backlog, sockfd, cstate, recvBy>>

\* timeouter's finally (signal.alarm(0)) and run's finally:
\* self.semaphore.acquire(False)  ("unavailable"); then either
\* self.work(sockfd, pid) or, after TimeoutError/EOFError, return
WorkerAcquire(w) ==
    /\ wpc[w] \in {"got", "quit"}
    /\ semaphore' = sem_acquire(semaphore)
    /\ expired' = expired \ {w}
    /\ IF wpc[w] = "got"
         THEN /\ wpc' = [wpc EXCEPT ![w] = "work"]
              /\ zombies' = zombies
         ELSE /\ wpc' = [wpc EXCEPT ![w] = "exited"]
              /\ zombies' = zombies \cup {w}
    /\ UNCHANGED <<workVars, planVars, checkVars, utilVars, deployVars, startVars, reloadVars, tailVars>>
    /\ UNCHANGED <<socket_path, rearmed, cresult>>
    /\ UNCHANGED <<dispatch, worker_pids, spc, client, forked, backlog,
                   sockfd, cstate, recvBy>>

\* self.work(sockfd, pid): the request is run and the exit code written;
\* should_quit is false, the loop continues
WorkerWork(w) ==
    /\ wpc[w] = "work"
    /\ cstate' = [cstate EXCEPT ![sockfd[w]] = "answered"]
    /\ sockfd' = [sockfd EXCEPT ![w] = NoClient]
    /\ wpc' = [wpc EXCEPT ![w] = "release"]
    /\ UNCHANGED <<workVars, planVars, checkVars, utilVars, deployVars, startVars, reloadVars, tailVars>>
    /\ UNCHANGED <<socket_path, expired, rearmed, cresult>>
    /\ UNCHANGED <<semaphore, dispatch, worker_pids, spc, client, forked,
                   zombies, backlog, recvBy>>

\* client.main: client.recv(1024) returns b'' once no process holds the
\* connection any more (the supervisor and every worker have exited and
\* the client was not answered); the client returns int('1')
ClientRecvNothing(c) ==
    /\ cstate[c] \in {"connected", "accepted", "queued", "received"}
    /\ SupervisorGone
    /\ \A w \in Workers : wpc[w] \in {"unborn", "exited"}
    /\ cstate' = [cstate EXCEPT ![c] = "closed"]
    /\ cresult' = [cresult EXCEPT ![c] = [t |-> "exit", status |-> client_exit_status(<<>>)]]
    /\ UNCHANGED <<workVars, planVars, checkVars, utilVars, deployVars, startVars, reloadVars, tailVars>>
    /\ UNCHANGED <<socket_path, expired, rearmed>>
    /\ UNCHANGED <<semaphore, dispatch, worker_pids, spc, client, forked,
                   zombies, backlog, wpc, sockfd, recvBy>>

\* a worker process is ended from outside (a signal whose default action
\* terminates it, or threading.Thread.start raising in run): it exits without
\* running the acquire of run's finally clause, at any point after the fork.
\* SIGTERM before the child closed the inherited exit stack unwinds that
\* stack in the child (SystemExit leaves State.run's with block).
WorkerKilled(w) ==
    /\ wpc[w] \notin {"unborn", "exited"}
    /\ wpc' = [wpc EXCEPT ![w] = "exited"]
    /\ zombies' = zombies \cup {w}
    /\ sockfd' = [sockfd EXCEPT ![w] = NoClient]
    /\ expired' = expired \ {w}
    /\ socket_path' = IF wpc[w] = "forked" THEN cleanup_by(w, socket_path)
                      ELSE socket_path
    /\ UNCHANGED <<workVars, planVars, checkVars, utilVars, deployVars, startVars, reloadVars, tailVars>>
    /\ UNCHANGED <<rearmed, cresult>>
    /\ UNCHANGED <<semaphore, dispatch, worker_pids, spc, client, forked,
                   backlog, cstate, recvBy>>

PoolNext ==
    \/ SupervisorStart
    \/ TimeoutElapses
    \/ \E c \in Clients : ClientRecvNothing(c)
    \/ \E c \in Clients : Connect(c)
    \/ Accept
    \/ SupervisorAlarm
    \/ SupervisorSigterm
    \/ QueueWorkAcquire
    \/ QueueWorkRelease
    \/ QueueWorkFork
    \/ QueueWorkAdd
    \/ QueueWorkSend
    \/ SigchldHandler
    \/ \E w \in Workers : WorkerCloseStack(w)
    \/ \E w \in Workers : WorkerRelease(w)
    \/ \E w \in Workers : WorkerRecv(w)
    \/ \E w \in Workers : WorkerTimeout(w)
    \/ \E w \in Workers : WorkerEOF(w)
    \/ \E w \in Workers : WorkerLateAlarm(w)
    \/ \E w \in Workers : WorkerAcquire(w)
    \/ \E w \in Workers : WorkerWork(w)

(***************************************************************************)
(* One worker's request handling: WorkerState.work / _work, and client.main *)
(***************************************************************************)
\* requests one worker takes in a run
MaxRequests == 2
\* highest descriptor number of the worker's descriptor table
MaxFd == 10

Fds == 0..MaxFd
StdFds == {0, 1, 2}
Closed == 0
NoFd == -1

\* open files: the supervisor's stdio inherited by the worker, the dispatch
\* socket, and per request the client's socket and the client's stdio
OrigFile(i) == i + 1
DispatchFile == 4
ClientSockFile(r) == 10 * r
ClientStdFile(r, i) == 10 * r + 1 + i
ClientStdFiles(r) == {ClientStdFile(r, i) : i \in StdFds}

\* os.getpid() of a worker
WorkerPids == {48, 2570, 12345}

\* environments (maps from variable name to value) and directories
ServerEnv == ("HOME" :> "/root")
ClientEnvs == << ("K" :> "V"), ("HOME" :> "/home") @@ ("K" :> "W") >>
ServerCwd == "/aws"
Dirs == {"/aws", "/tmp", "/home"}
ClientCwds == {"/tmp", "/home"}
\* sys.argv[1:] of a client invocation
ClientArgvs == << <<>>, <<"s3", "ls">>, <<"/tmp", "ls">>,
                  <<".start-command-server", "/reload">> >>

\* JSON values of a frame's top-level list
JStr(x) == [t |-> "str", s |-> x, m |-> ServerEnv, strs |-> TRUE]
JNum == [t |-> "num", s |-> "", m |-> ServerEnv, strs |-> TRUE]
JDict(e) == [t |-> "dict", s |-> "", m |-> e, strs |-> TRUE]
\* a JSON object one of whose values is not a string
JDictBad(e) == [t |-> "dict", s |-> "", m |-> e, strs |-> FALSE]
JStrs(a) == [i \in 1..Len(a) |-> JStr(a[i])]

\* the bytes on the wire: json.dumps(list) + newline, or something else
JList(items) == [valid |-> TRUE, list |-> TRUE, items |-> items]
JNotList == [valid |-> TRUE, list |-> FALSE, items |-> <<>>]
JInvalid == [valid |-> FALSE, list |-> FALSE, items |-> <<>>]

\* client.main: data = [dict(os.environ)] + sys.argv[1:]; json.dumps(data)
client_main_frame(env, argv) == JList(<<JDict(env)>> \o JStrs(argv))

\* the frame _work parses: [env_map, cwd_string, arg0, arg1, ...]
work_frame(env, dir, argv) == JList(<<JDict(env), JStr(dir)>> \o JStrs(argv))

\* frames of clients other than client.main, well-formed and malformed
RawFrames == <<
    JInvalid,
    JNotList,
    JList(<<>>),
    work_frame(ClientEnvs[1], "/tmp", <<"s3", "ls">>),
    work_frame(ClientEnvs[2], "/home", <<>>),
    work_frame(ClientEnvs[1], "/tmp", <<"/reload">>),
    work_frame(ClientEnvs[1], "/tmp", <<".start-command-server", "/reload">>),
    work_frame(ClientEnvs[1], "/nonexistent", <<"s3">>),
    JList(<<JStr("x"), JStr("/tmp"), JStr("s3")>>),
    JList(<<JDict(ClientEnvs[1]), JNum, JStr("s3")>>),
    JList(<<JDictBad(ClientEnvs[1]), JStr("/tmp"), JStr("s3")>>),
    JList(<<JStr("x"), JStr("/tmp"), JStr("/reload")>>),
    JList(<<JDict(ClientEnvs[1])>>)
>>

\* exit codes: Python ints and None
IntCode(n) == [t |-> "int", v |-> n]
NoneCode == [t |-> "none", v |-> 0]
\* what driver.main may do: return a value, raise SystemExit(code), or raise
\* another exception
DriverOutcomes == <<
    [kind |-> "return", code |-> NoneCode],
    [kind |-> "return", code |-> IntCode(0)],
    [kind |-> "return", code |-> IntCode(255)],
    [kind |-> "exit", code |-> IntCode(3)],
    [kind |-> "exit", code |-> NoneCode],
    [kind |-> "raise", code |-> NoneCode]
>>

(***************************************************************************)
(* Bytes                                                                    *)
(***************************************************************************)
RECURSIVE pack_le(_, _)
\* little-endian bytes of n, width w
pack_le(n, w) == IF w = 0 THEN <<>> ELSE <<n % 256>> \o pack_le(n \div 256, w - 1)
pack_I(n) == pack_le(n, 4)
\* struct.pack('Q', pid)
pack_Q(n) == pack_le(n, 8)

RECURSIVE decimal(_)
decimal(n) == IF n < 10 THEN <<48 + n>> ELSE decimal(n \div 10) \o <<48 + (n % 10)>>
\* str(exit_code).encode()
str_encode(c) ==
    IF c.t = "none" THEN <<78, 111, 110, 101>>
    ELSE IF c.v < 0 THEN <<45>> \o decimal(-c.v) ELSE decimal(c.v)

(***************************************************************************)
(* Descriptor table                                                         *)
(***************************************************************************)
LowestFree(t) == CHOOSE f \in Fds : t[f] = Closed /\ \A g \in Fds : g < f => t[g] # Closed
\* install an open file at the lowest free descriptor (os.dup, recvmsg)
fd_install(t, file) == [t EXCEPT ![LowestFree(t)] = file]
os_dup2(t, src, dest) == [t EXCEPT ![dest] = t[src]]
os_close(t, fd) == [t EXCEPT ![fd] = Closed]

\* temp_dup_fd up to the yield, on st = [t: descriptor table, c: fd_cache]
temp_dup_fd_enter(st, src, dest) ==
    LET c1 == IF st.c[dest] = NoFd
                THEN [st.c EXCEPT ![dest] = LowestFree(st.t)]
                ELSE st.c
        t1 == IF st.c[dest] = NoFd THEN fd_install(st.t, st.t[dest]) ELSE st.t
    IN  [t |-> os_dup2(t1, src, dest), c |-> c1]

temp_dup_fd_exit_norestore(t, c, dest) == t
\* temp_dup_fd's finally: os.dup2(self.fd_cache[dest], dest)
temp_dup_fd_exit(t, c, dest) == os_dup2(t, c[dest], dest)

\* temp_set_environ without the clear: the new variables are added to those
\* already set
temp_set_environ_enter_noclear(cur, env_vars) == env_vars @@ cur
\* temp_set_environ(env_vars), entering: os.environ.clear(); os.environ.update(environ)
temp_set_environ_enter(cur, env_vars) == env_vars

temp_set_environ_exit_noclear(cur, original) == original @@ cur
\* temp_set_environ's finally: os.environ.clear(); os.environ.update(original)
temp_set_environ_exit(cur, original) == original

\* callbacks on work's ExitStack
Callback(op, fd, env, dir) == [op |-> op, fd |-> fd, env |-> env, dir |-> dir]
CbSock(fd) == Callback("sock_close", fd, ServerEnv, "")
CbClose(fd) == Callback("close", fd, ServerEnv, "")
CbDupFd(dest) == Callback("temp_dup_fd", dest, ServerEnv, "")
CbFlush(fd) == Callback("flush", fd, ServerEnv, "")
CbEnviron(original) == Callback("temp_set_environ", NoFd, original, "")
CbChdir(old) == Callback("chdir", NoFd, ServerEnv, old)

NoRequest == [src |-> "none", env |-> ServerEnv, cwd |-> "", argv |-> <<>>,
              frame |-> JInvalid, nfds |-> 0]
NotRan == [ran |-> FALSE, env |-> ServerEnv, cwd |-> "", argv |-> <<>>, outcome |-> 0]
\* no buffered output of the request has been written to a descriptor
NoneFlushed == [f \in {1, 2} |-> Closed]
\* sys.stdout.flush / sys.stderr.flush: the buffer is written to the file
\* that descriptor 1 / 2 refers to at that moment
flush(to, fd, table) == [to EXCEPT ![fd] = table[fd]]

WorkInitWith(p) ==
    /\ rpc = "idle"
    /\ nreq = 0
    /\ req = NoRequest
    /\ pid = p
    /\ environ = ServerEnv
    /\ cwd = ServerCwd
    /\ fdtable = [f \in Fds |-> IF f \in StdFds THEN OrigFile(f)
                                ELSE IF f = 3 THEN DispatchFile ELSE Closed]
    /\ fd_cache = [d \in StdFds |-> NoFd]
    /\ exit_stack = <<>>
    /\ fds = <<>>
    /\ args = <<>>
    /\ exit_code = IntCode(1)
    /\ sockout = <<>>
    /\ sigusr1 = FALSE
    /\ ran = NotRan
    /\ base = [env |-> ServerEnv, cwd |-> ServerCwd,
               std |-> [d \in StdFds |-> OrigFile(d)]]
    /\ cpc = "none"
    /\ client_exit = 0
    /\ buffered = {}
    /\ flushed_to = NoneFlushed

WorkInit == \E p \in WorkerPids : WorkInitWith(p)

\* the message _work sends first: sock.sendall(struct.pack('Q', pid))
pid_message_I(p) == [kind |-> "pid", bytes |-> pack_I(p)]
pid_message(p) == [kind |-> "pid", bytes |-> pack_Q(p)]
\* the message work's finally sends: sock.sendall(str(exit_code).encode())
exit_message(c) == [kind |-> "exit", bytes |-> str_encode(c)]

\* exit_code = self._work(...) or 0
or_0_identity(c) == c
or_0(c) == IF c.t = "none" \/ c.v = 0 THEN IntCode(0) ELSE c

RECURSIVE stream(_)
\* the bytes of the messages written on the client socket
stream(msgs) == IF msgs = <<>> THEN <<>> ELSE Head(msgs).bytes \o stream(Tail(msgs))

(***************************************************************************)
(* Worker actions                                                           *)
(***************************************************************************)
\* run: sockfd = recvfds(self.sock, 1)[0]; work: sock = socket(fileno=sockfd)
\* is entered on the exit stack; exit_code = 1
Begin ==
    /\ rpc = "idle"
    /\ nreq < MaxRequests
    /\ cpc # "sent"
    /\ nreq' = nreq + 1
    /\ fdtable' = fd_install(fdtable, ClientSockFile(nreq + 1))
    /\ exit_stack' = <<CbSock(LowestFree(fdtable))>>
    /\ exit_code' = IntCode(1)
    /\ fds' = <<>>
    /\ args' = <<>>
    /\ sockout' = <<>>
    /\ sigusr1' = FALSE
    /\ ran' = NotRan
    /\ base' = [base EXCEPT !.env = environ, !.cwd = cwd]
    /\ rpc' = "recvfds"
    /\ buffered' = {}
    /\ flushed_to' = NoneFlushed
    /\ UNCHANGED <<pid, environ, cwd, fd_cache, client_exit>>
    /\ UNCHANGED <<poolVars, planVars, checkVars, utilVars, deployVars, startVars, reloadVars, tailVars>>

\* a client running client.main with (env, cwd, argv) connects, sends its
\* three descriptors and its frame, and waits in recv
StartClientMain ==
    /\ \E e \in 1..Len(ClientEnvs), d \in ClientCwds, a \in 1..Len(ClientArgvs) :
        req' = [src |-> "client.main", env |-> ClientEnvs[e], cwd |-> d,
                argv |-> ClientArgvs[a],
                frame |-> client_main_frame(ClientEnvs[e], ClientArgvs[a]),
                nfds |-> 3]
    /\ cpc' = "sent"
    /\ Begin

\* another client sends nfds descriptors and some frame
StartRaw ==
    /\ \E i \in 1..Len(RawFrames), n \in {0, 3} :
        req' = [src |-> "raw", env |-> ServerEnv, cwd |-> "", argv |-> <<>>,
                frame |-> RawFrames[i], nfds |-> n]
    /\ cpc' = "none"
    /\ Begin

\* _work: fds = recvfds(sock, 3) and the three os.close callbacks; recvfds
\* raises when the client did not send three descriptors
RecvFds ==
    /\ rpc = "recvfds"
    /\ IF req.nfds = 3
         THEN LET f0 == LowestFree(fdtable)
                  t0 == fd_install(fdtable, ClientStdFile(nreq, 0))
                  f1 == LowestFree(t0)
                  t1 == fd_install(t0, ClientStdFile(nreq, 1))
                  f2 == LowestFree(t1)
                  t2 == fd_install(t1, ClientStdFile(nreq, 2))
              IN  /\ fds' = <<f0, f1, f2>>
                  /\ fdtable' = t2
                  /\ exit_stack' = exit_stack \o <<CbClose(f0), CbClose(f1), CbClose(f2)>>
                  /\ rpc' = "sendpid"
         ELSE /\ rpc' = "finally"
              /\ UNCHANGED <<fds, fdtable, exit_stack>>
    /\ UNCHANGED <<nreq, req, pid, environ, cwd, fd_cache, args, exit_code,
                   sockout, sigusr1, ran, base, cpc, client_exit>>
    /\ UNCHANGED <<poolVars, planVars, checkVars, utilVars, deployVars, startVars, reloadVars, tailVars>>
    /\ UNCHANGED <<buffered, flushed_to>>

\* _work: sock.sendall(struct.pack('Q', pid))
SendPid ==
    /\ rpc = "sendpid"
    /\ sockout' = Append(sockout, pid_message(pid))
    /\ rpc' = "read"
    /\ UNCHANGED <<nreq, req, pid, environ, cwd, fdtable, fd_cache, exit_stack,
                   fds, args, exit_code, sigusr1, ran, base, cpc, client_exit>>
    /\ UNCHANGED <<poolVars, planVars, checkVars, utilVars, deployVars, startVars, reloadVars, tailVars>>
    /\ UNCHANGED <<buffered, flushed_to>>

\* _work: the recv loop reads the frame up to its newline (or end of file)
ReadFrame ==
    /\ rpc = "read"
    /\ rpc' = "dup"
    /\ UNCHANGED <<nreq, req, pid, environ, cwd, fdtable, fd_cache, exit_stack,
                   fds, args, exit_code, sockout, sigusr1, ran, base, cpc,
                   client_exit>>
    /\ UNCHANGED <<poolVars, planVars, checkVars, utilVars, deployVars, startVars, reloadVars, tailVars>>
    /\ UNCHANGED <<buffered, flushed_to>>

\* _work: the three temp_dup_fd contexts and the two flush callbacks
DupFds ==
    /\ rpc = "dup"
    /\ LET st0 == [t |-> fdtable, c |-> fd_cache]
           st1 == temp_dup_fd_enter(st0, fds[1], 0)
           st2 == temp_dup_fd_enter(st1, fds[2], 1)
           st3 == temp_dup_fd_enter(st2, fds[3], 2)
       IN  /\ fdtable' = st3.t
           /\ fd_cache' = st3.c
    /\ exit_stack' = exit_stack \o
            <<CbDupFd(0), CbDupFd(1), CbDupFd(2), CbFlush(1), CbFlush(2)>>
    /\ rpc' = "parse"
    /\ UNCHANGED <<nreq, req, pid, environ, cwd, fds, args, exit_code, sockout,
                   sigusr1, ran, base, cpc, client_exit>>
    /\ UNCHANGED <<poolVars, planVars, checkVars, utilVars, deployVars, startVars, reloadVars, tailVars>>
    /\ UNCHANGED <<buffered, flushed_to>>

\* _work: args = json.loads(data); the assert on the list; the /reload
\* command (os.kill(os.getppid(), SIGUSR1); return)
Parse ==
    /\ rpc = "parse"
    /\ LET f == req.frame IN
        IF ~f.valid \/ ~f.list \/ Len(f.items) < 1
          THEN /\ rpc' = "finally"
               /\ UNCHANGED <<args, sigusr1, exit_code>>
          ELSE IF Len(f.items) > 2 /\ f.items[3].t = "str" /\ f.items[3].s = "/reload"
          THEN /\ sigusr1' = TRUE
               /\ exit_code' = or_0(NoneCode)
               /\ rpc' = "finally"
               /\ UNCHANGED args
          ELSE /\ args' = f.items
               /\ rpc' = "environ"
               /\ UNCHANGED <<sigusr1, exit_code>>
    /\ UNCHANGED <<nreq, req, pid, environ, cwd, fdtable, fd_cache, exit_stack,
                   fds, sockout, ran, base, cpc, client_exit>>
    /\ UNCHANGED <<poolVars, planVars, checkVars, utilVars, deployVars, startVars, reloadVars, tailVars>>
    /\ UNCHANGED <<buffered, flushed_to>>

\* _work: env_vars = args.pop(0); the assert; temp_set_environ(env_vars)
SetEnviron ==
    /\ rpc = "environ"
    /\ LET env_vars == Head(args) IN
        IF env_vars.t # "dict"
          THEN /\ rpc' = "finally"
               /\ UNCHANGED <<environ, exit_stack>>
          ELSE IF ~env_vars.strs
          \* os.environ.update raises inside the try: the finally restores
          THEN /\ environ' = temp_set_environ_exit(env_vars.m, environ)
               /\ rpc' = "finally"
               /\ UNCHANGED exit_stack
          ELSE /\ environ' = temp_set_environ_enter(environ, env_vars.m)
               /\ exit_stack' = Append(exit_stack, CbEnviron(environ))
               /\ rpc' = "chdir"
    /\ args' = Tail(args)
    /\ UNCHANGED <<nreq, req, pid, cwd, fdtable, fd_cache, fds, exit_code,
                   sockout, sigusr1, ran, base, cpc, client_exit>>
    /\ UNCHANGED <<poolVars, planVars, checkVars, utilVars, deployVars, startVars, reloadVars, tailVars>>
    /\ UNCHANGED <<buffered, flushed_to>>

\* _work: cwd = args.pop(0); the assert; contextlib.chdir(cwd)
Chdir ==
    /\ rpc = "chdir"
    /\ IF args = <<>> \/ Head(args).t # "str" \/ Head(args).s \notin Dirs
         THEN /\ rpc' = "finally"
              /\ UNCHANGED <<cwd, exit_stack, args>>
         ELSE /\ cwd' = Head(args).s
              /\ exit_stack' = Append(exit_stack, CbChdir(cwd))
              /\ args' = Tail(args)
              /\ rpc' = "driver"
    /\ UNCHANGED <<nreq, req, pid, environ, fdtable, fd_cache, fds, exit_code,
                   sockout, sigusr1, ran, base, cpc, client_exit>>
    /\ UNCHANGED <<poolVars, planVars, checkVars, utilVars, deployVars, startVars, reloadVars, tailVars>>
    /\ UNCHANGED <<buffered, flushed_to>>

\* _work: driver.main(args), which may change the environment, the working
\* directory and stdout, may leave output in the buffers of sys.stdout and
\* sys.stderr, and returns, exits or raises; work's try/except
Driver ==
    /\ rpc = "driver"
    /\ \E o \in 1..Len(DriverOutcomes) :
        /\ ran' = [ran |-> TRUE, env |-> environ, cwd |-> cwd, argv |-> args,
                   outcome |-> o]
        /\ exit_code' = IF DriverOutcomes[o].kind = "return" THEN or_0(DriverOutcomes[o].code)
                        ELSE IF DriverOutcomes[o].kind = "exit" THEN DriverOutcomes[o].code
                        ELSE exit_code
    /\ \E out \in SUBSET {1, 2} : buffered' = out
    /\ \E chg \in SUBSET {"environ", "cwd", "stdout"} :
        /\ environ' = IF "environ" \in chg THEN ("AWS_PAGER" :> "") @@ environ ELSE environ
        /\ cwd' = IF "cwd" \in chg THEN "/aws" ELSE cwd
        /\ fdtable' = IF "stdout" \in chg THEN os_dup2(fdtable, 2, 1) ELSE fdtable
    /\ rpc' = "finally"
    /\ UNCHANGED <<nreq, req, pid, fd_cache, exit_stack, fds, args, sockout,
                   sigusr1, base, cpc, client_exit>>
    /\ UNCHANGED <<poolVars, planVars, checkVars, utilVars, deployVars, startVars, reloadVars, tailVars>>
    /\ UNCHANGED flushed_to

\* work's finally: sock.sendall(str(exit_code).encode())
Finally ==
    /\ rpc = "finally"
    /\ sockout' = Append(sockout, exit_message(exit_code))
    /\ rpc' = "unwind"
    /\ UNCHANGED <<nreq, req, pid, environ, cwd, fdtable, fd_cache, exit_stack,
                   fds, args, exit_code, sigusr1, ran, base, cpc, client_exit>>
    /\ UNCHANGED <<poolVars, planVars, checkVars, utilVars, deployVars, startVars, reloadVars, tailVars>>
    /\ UNCHANGED <<buffered, flushed_to>>

\* the with block of work ends: the exit stack runs its last callback
Unwind ==
    /\ rpc = "unwind"
    /\ exit_stack # <<>>
    /\ LET cb == exit_stack[Len(exit_stack)] IN
        /\ cwd' = IF cb.op = "chdir" THEN cb.dir ELSE cwd
        /\ environ' = IF cb.op = "temp_set_environ"
                        THEN temp_set_environ_exit(environ, cb.env) ELSE environ
        /\ fdtable' = IF cb.op = "temp_dup_fd" THEN temp_dup_fd_exit(fdtable, fd_cache, cb.fd)
                      ELSE IF cb.op \in {"close", "sock_close"} THEN os_close(fdtable, cb.fd)
                      ELSE fdtable
        /\ buffered' = IF cb.op = "flush" THEN buffered \ {cb.fd} ELSE buffered
        /\ flushed_to' = IF cb.op = "flush" /\ cb.fd \in buffered
                           THEN flush(flushed_to, cb.fd, fdtable) ELSE flushed_to
    /\ exit_stack' = SubSeq(exit_stack, 1, Len(exit_stack) - 1)
    /\ UNCHANGED <<rpc, nreq, req, pid, fd_cache, fds, args, exit_code, sockout,
                   sigusr1, ran, base, cpc, client_exit>>
    /\ UNCHANGED <<poolVars, planVars, checkVars, utilVars, deployVars, startVars, reloadVars, tailVars>>

\* work returns to run's loop
WorkReturn ==
    /\ rpc = "unwind"
    /\ exit_stack = <<>>
    /\ rpc' = "idle"
    /\ UNCHANGED <<nreq, req, pid, environ, cwd, fdtable, fd_cache, exit_stack,
                   fds, args, exit_code, sockout, sigusr1, ran, base, cpc,
                   client_exit>>
    /\ UNCHANGED <<poolVars, planVars, checkVars, utilVars, deployVars, startVars, reloadVars, tailVars>>
    /\ UNCHANGED <<buffered, flushed_to>>

\* client.main: client.recv(1024) returns what the worker has written so
\* far and the client process exits
ClientRecv ==
    /\ cpc = "sent"
    /\ sockout # <<>>
    /\ client_exit' = client_exit_status(stream(sockout))
    /\ cpc' = "exited"
    /\ UNCHANGED <<rpc, nreq, req, pid, environ, cwd, fdtable, fd_cache,
                   exit_stack, fds, args, exit_code, sockout, sigusr1, ran,
                   base>>
    /\ UNCHANGED <<poolVars, planVars, checkVars, utilVars, deployVars, startVars, reloadVars, tailVars>>
    /\ UNCHANGED <<buffered, flushed_to>>

WorkNext ==
    \/ StartClientMain
    \/ StartRaw
    \/ RecvFds
    \/ SendPid
    \/ ReadFrame
    \/ DupFds
    \/ Parse
    \/ SetEnviron
    \/ Chdir
    \/ Driver
    \/ Finally
    \/ Unwind
    \/ WorkReturn
    \/ ClientRecv

(***************************************************************************)
(* One worker's main thread and its liveness thread: WorkerState.run,       *)
(* work, socket_checker.  The worker is forked after State.run installed    *)
(* the SIGTERM handler (sys.exit(0)), which Python runs in the main thread. *)
(***************************************************************************)
Requests == 1..MaxRequests
\* None, as the value of current_sock and of socket_checker's sock
NoSock == 0

CheckInit ==
    /\ run_pc = "while"
    /\ served = 0
    /\ current_sock = NoSock
    /\ sock_event = FALSE
    /\ should_quit = FALSE
    /\ checker_pc = "wait"
    /\ sock = NoSock
    /\ sock_open = [r \in Requests |-> FALSE]
    /\ peer = [r \in Requests |-> "none"]
    /\ sigterm = FALSE
    /\ alive = "running"
    /\ cancelled = {}

\* the process ends: the kernel closes its descriptors
process_exit(how) ==
    /\ alive' = how
    /\ sock_open' = [r \in Requests |-> FALSE]

\* run: while not self.should_quit
RunWhile ==
    /\ alive = "running"
    /\ run_pc = "while"
    /\ IF should_quit
         THEN /\ process_exit("exited")
              /\ UNCHANGED run_pc
         ELSE /\ run_pc' = "recvfds"
              /\ UNCHANGED <<alive, sock_open>>
    /\ UNCHANGED <<served, current_sock, sock_event, should_quit, checker_pc,
                   sock, peer, sigterm, cancelled>>
    /\ UNCHANGED <<poolVars, workVars, planVars, utilVars, deployVars, startVars, reloadVars, tailVars>>

\* run: sockfd = recvfds(self.sock, 1)[0]; work: sock = socket(fileno=sockfd)
RunRecvfds ==
    /\ alive = "running"
    /\ run_pc = "recvfds"
    /\ served < MaxRequests
    /\ served' = served + 1
    /\ peer' = [peer EXCEPT ![served + 1] = "open"]
    /\ sock_open' = [sock_open EXCEPT ![served + 1] = TRUE]
    /\ run_pc' = "read"
    /\ UNCHANGED <<current_sock, sock_event, should_quit, checker_pc, sock,
                   sigterm, alive, cancelled>>
    /\ UNCHANGED <<poolVars, workVars, planVars, utilVars, deployVars, startVars, reloadVars, tailVars>>

\* run: except (TimeoutError, EOFError): return
RunTimeout ==
    /\ alive = "running"
    /\ run_pc = "recvfds"
    /\ process_exit("exited")
    /\ UNCHANGED <<run_pc, served, current_sock, sock_event, should_quit,
                   checker_pc, sock, peer, sigterm, cancelled>>
    /\ UNCHANGED <<poolVars, workVars, planVars, utilVars, deployVars, startVars, reloadVars, tailVars>>

\* _work: recvfds(sock, 3), the pid, the recv loop; then
\* self.current_sock = sock; self.sock_event.set().  recvfds or sendall may
\* raise instead, which leads to work's finally.
WorkRead ==
    /\ alive = "running"
    /\ run_pc = "read"
    /\ \/ /\ current_sock' = served
          /\ sock_event' = TRUE
          /\ run_pc' = "serving"
       \/ /\ run_pc' = "finally"
          /\ UNCHANGED <<current_sock, sock_event>>
    /\ UNCHANGED <<served, should_quit, checker_pc, sock, sock_open, peer,
                   sigterm, alive, cancelled>>
    /\ UNCHANGED <<poolVars, workVars, planVars, utilVars, deployVars, startVars, reloadVars, tailVars>>

\* _work from temp_dup_fd to driver.main returns or raises
WorkServe ==
    /\ alive = "running"
    /\ run_pc = "serving"
    /\ run_pc' = "finally"
    /\ UNCHANGED <<served, current_sock, sock_event, should_quit, checker_pc,
                   sock, sock_open, peer, sigterm, alive, cancelled>>
    /\ UNCHANGED <<poolVars, workVars, planVars, utilVars, deployVars, startVars, reloadVars, tailVars>>

current_sock_kept(s) == s
\* self.current_sock = None
current_sock_None(s) == NoSock

\* work's finally: self.current_sock = None
WorkFinally ==
    /\ alive = "running"
    /\ run_pc = "finally"
    /\ current_sock' = current_sock_None(current_sock)
    /\ run_pc' = "sendall"
    /\ UNCHANGED <<served, sock_event, should_quit, checker_pc, sock,
                   sock_open, peer, sigterm, alive, cancelled>>
    /\ UNCHANGED <<poolVars, workVars, planVars, utilVars, deployVars, startVars, reloadVars, tailVars>>

\* work's finally: sock.sendall(str(exit_code).encode())
WorkSendall ==
    /\ alive = "running"
    /\ run_pc = "sendall"
    /\ run_pc' = "close"
    /\ UNCHANGED <<served, current_sock, sock_event, should_quit, checker_pc,
                   sock, sock_open, peer, sigterm, alive, cancelled>>
    /\ UNCHANGED <<poolVars, workVars, planVars, utilVars, deployVars, startVars, reloadVars, tailVars>>

\* the with block of work ends: the exit stack closes the socket
WorkClose ==
    /\ alive = "running"
    /\ run_pc = "close"
    /\ sock_open' = [sock_open EXCEPT ![served] = FALSE]
    /\ run_pc' = "while"
    /\ UNCHANGED <<served, current_sock, sock_event, should_quit, checker_pc,
                   sock, peer, sigterm, alive, cancelled>>
    /\ UNCHANGED <<poolVars, workVars, planVars, utilVars, deployVars, startVars, reloadVars, tailVars>>

\* where work's except SystemExit catches
in_try(pc) == pc \in {"read", "serving"}

\* the SIGTERM handler sys.exit(0) runs in the main thread: inside work's
\* try it is caught (exit_code = e.code) and the finally follows; anywhere
\* else SystemExit leaves run and the process exits
SigtermHandler ==
    /\ alive = "running"
    /\ sigterm
    /\ sigterm' = FALSE
    /\ IF in_try(run_pc)
         THEN /\ run_pc' = "finally"
              /\ UNCHANGED <<alive, sock_open>>
         ELSE /\ process_exit("exited")
              /\ UNCHANGED run_pc
    /\ UNCHANGED <<served, current_sock, sock_event, should_quit, checker_pc,
                   sock, peer, cancelled>>
    /\ UNCHANGED <<poolVars, workVars, planVars, utilVars, deployVars, startVars, reloadVars, tailVars>>

\* socket_checker: self.sock_event.wait()
CheckerWait ==
    /\ alive = "running"
    /\ checker_pc = "wait"
    /\ sock_event
    /\ checker_pc' = "take"
    /\ UNCHANGED <<run_pc, served, current_sock, sock_event, should_quit, sock,
                   sock_open, peer, sigterm, alive, cancelled>>
    /\ UNCHANGED <<poolVars, workVars, planVars, utilVars, deployVars, startVars, reloadVars, tailVars>>

\* socket_checker: sock = self.current_sock
CheckerTake ==
    /\ alive = "running"
    /\ checker_pc = "take"
    /\ sock' = current_sock
    /\ checker_pc' = "clear"
    /\ UNCHANGED <<run_pc, served, current_sock, sock_event, should_quit,
                   sock_open, peer, sigterm, alive, cancelled>>
    /\ UNCHANGED <<poolVars, workVars, planVars, utilVars, deployVars, startVars, reloadVars, tailVars>>

\* socket_checker: self.sock_event.clear()
CheckerClear ==
    /\ alive = "running"
    /\ checker_pc = "clear"
    /\ sock_event' = FALSE
    /\ checker_pc' = "select"
    /\ UNCHANGED <<run_pc, served, current_sock, should_quit, sock, sock_open,
                   peer, sigterm, alive, cancelled>>
    /\ UNCHANGED <<poolVars, workVars, planVars, utilVars, deployVars, startVars, reloadVars, tailVars>>

\* select.select([sock], (), ()) is called: TypeError when sock is None,
\* ValueError when the socket object is closed (fileno() is -1); the
\* uncaught exception ends the thread.  Otherwise the thread blocks.
CheckerSelect ==
    /\ alive = "running"
    /\ checker_pc = "select"
    /\ checker_pc' = IF sock = NoSock \/ ~sock_open[sock] THEN "dead" ELSE "blocked"
    /\ UNCHANGED <<run_pc, served, current_sock, sock_event, should_quit, sock,
                   sock_open, peer, sigterm, alive, cancelled>>
    /\ UNCHANGED <<poolVars, workVars, planVars, utilVars, deployVars, startVars, reloadVars, tailVars>>

\* select returns: the client closed its end (the socket reads end of file);
\* when the main thread closed the descriptor meanwhile, whether select
\* returns for that is unspecified and both outcomes are taken
CheckerSelectReturn ==
    /\ alive = "running"
    /\ checker_pc = "blocked"
    /\ peer[sock] = "closed" \/ ~sock_open[sock]
    /\ checker_pc' = "check"
    /\ UNCHANGED <<run_pc, served, current_sock, sock_event, should_quit, sock,
                   sock_open, peer, sigterm, alive, cancelled>>
    /\ UNCHANGED <<poolVars, workVars, planVars, utilVars, deployVars, startVars, reloadVars, tailVars>>

\* socket_checker: if self.current_sock is sock
CheckerCheck ==
    /\ alive = "running"
    /\ checker_pc = "check"
    /\ checker_pc' = IF current_sock = sock THEN "quit" ELSE "wait"
    /\ UNCHANGED <<run_pc, served, current_sock, sock_event, should_quit, sock,
                   sock_open, peer, sigterm, alive, cancelled>>
    /\ UNCHANGED <<poolVars, workVars, planVars, utilVars, deployVars, startVars, reloadVars, tailVars>>

\* socket_checker: self.should_quit = True
CheckerQuit ==
    /\ alive = "running"
    /\ checker_pc = "quit"
    /\ should_quit' = TRUE
    /\ checker_pc' = "kill"
    /\ UNCHANGED <<run_pc, served, current_sock, sock_event, sock, sock_open,
                   peer, sigterm, alive, cancelled>>
    /\ UNCHANGED <<poolVars, workVars, planVars, utilVars, deployVars, startVars, reloadVars, tailVars>>

\* socket_checker: os.kill(os.getpid(), signal.SIGTERM); time.sleep(1)
CheckerKill ==
    /\ alive = "running"
    /\ checker_pc = "kill"
    /\ sigterm' = TRUE
    /\ checker_pc' = "sleep"
    /\ UNCHANGED <<run_pc, served, current_sock, sock_event, should_quit, sock,
                   sock_open, peer, alive, cancelled>>
    /\ UNCHANGED <<poolVars, workVars, planVars, utilVars, deployVars, startVars, reloadVars, tailVars>>

\* socket_checker: os._exit(1) after the second of sleep
CheckerHardExit ==
    /\ alive = "running"
    /\ checker_pc = "sleep"
    /\ process_exit("killed")
    /\ UNCHANGED <<run_pc, served, current_sock, sock_event, should_quit,
                   checker_pc, sock, peer, sigterm, cancelled>>
    /\ UNCHANGED <<poolVars, workVars, planVars, utilVars, deployVars, startVars, reloadVars, tailVars>>

\* the request r is being serviced: its line was read (current_sock is
\* set) and work's finally has not begun
Servicing(r) == run_pc = "serving" /\ served = r /\ alive = "running"

\* the client of request r closes its socket (it exits or is interrupted)
ClientClose(r) ==
    /\ peer[r] = "open"
    /\ peer' = [peer EXCEPT ![r] = "closed"]
    /\ cancelled' = IF Servicing(r) THEN cancelled \cup {r} ELSE cancelled
    /\ UNCHANGED <<run_pc, served, current_sock, sock_event, should_quit,
                   checker_pc, sock, sock_open, sigterm, alive>>
    /\ UNCHANGED <<poolVars, workVars, planVars, utilVars, deployVars, startVars, reloadVars, tailVars>>

CheckNext ==
    \/ RunWhile
    \/ RunRecvfds
    \/ RunTimeout
    \/ WorkRead
    \/ WorkServe
    \/ WorkFinally
    \/ WorkSendall
    \/ WorkClose
    \/ SigtermHandler
    \/ CheckerWait
    \/ CheckerTake
    \/ CheckerClear
    \/ CheckerSelect
    \/ CheckerSelectReturn
    \/ CheckerCheck
    \/ CheckerQuit
    \/ CheckerKill
    \/ CheckerHardExit
    \/ \E r \in Requests : ClientClose(r)

(***************************************************************************)
(* Planner: src/grabber (utils.py, arg.py, method.py, service.py)           *)
(*                                                                          *)
(* Words are written as prepare_for_scoring yields them: split at case      *)
(* changes and separators, lower-cased, singular.  A key is its word        *)
(* tuple (KeySpec.make), an output path is a tuple of segments, each a word *)
(* tuple or the iterate marker.                                             *)
(***************************************************************************)
MaxQueries == 2

NoMethod == 0
Star == <<"*">>
ID_FORMATS == {"id", "name", "arn", "code", "list", "identifier"}
SUFFIXES == {"key"}
NoFormat == "none"
NoScore == <<>>
NegInf == -1
ReadVerbs == {"list", "describe", "get"}

Required(key) == [key |-> key, enum |-> FALSE]
RequiredEnum(key) == [key |-> key, enum |-> TRUE]
Operation(verb, path, requires, outputs) ==
    [verb |-> verb, path |-> path, requires |-> requires, outputs |-> outputs]

\* describe_instances, list_users(Scope: enum), create_instance
ExactService ==
    [methods |-> <<
        Operation("describe", <<"instance">>, <<>>,
                  << <<<<"reservation">>, Star, <<"instance">>, Star,
                       <<"instance", "id">>>> >>),
        Operation("list", <<"user">>, <<RequiredEnum(<<"scope">>)>>,
                  << <<<<"user">>, Star, <<"user", "name">>>> >>),
        Operation("create", <<"instance">>, <<>>,
                  << <<<<"instance">>, <<"instance", "id">>>> >>) >>,
     queries |-> << <<"instance", "id">>, <<"user", "name">>,
                    <<"bucket", "name">> >>]

\* describe_subnets(VpcId), describe_vpcs
ChainService ==
    [methods |-> <<
        Operation("describe", <<"subnet">>, <<Required(<<"vpc", "id">>)>>,
                  << <<<<"subnet">>, Star, <<"subnet", "id">>>> >>),
        Operation("describe", <<"vpc">>, <<>>,
                  << <<<<"vpc">>, Star, <<"vpc", "id">>>> >>) >>,
     queries |-> << <<"subnet", "id">>, <<"vpc", "id">> >>]

\* get_a(B), get_b(A)
CycleService ==
    [methods |-> <<
        Operation("get", <<"a">>, <<Required(<<"b">>)>>, << <<<<"a">>>> >>),
        Operation("get", <<"b">>, <<Required(<<"a">>)>>, << <<<<"b">>>> >>) >>,
     queries |-> << <<"a">>, <<"b">> >>]

\* describe_vpcs(HomeRegionId), list_items(ZoneId), describe_zones(VpcId),
\* list_networks
SharedService ==
    [methods |-> <<
        Operation("describe", <<"vpc">>,
                  <<Required(<<"home", "region", "id">>)>>,
                  << <<<<"vpc">>, Star, <<"vpc", "id">>>>,
                     <<<<"vpc">>, Star, <<"thing", "id">>>> >>),
        Operation("list", <<"item">>, <<Required(<<"zone", "id">>)>>,
                  << <<<<"item">>, Star, <<"thing", "id">>>> >>),
        Operation("describe", <<"zone">>, <<Required(<<"vpc", "id">>)>>,
                  << <<<<"zone">>, Star, <<"zone", "id">>>>,
                     <<<<"zone">>, Star, <<"home", "region", "id">>>> >>),
        Operation("list", <<"network">>, <<>>,
                  << <<<<"network">>, Star, <<"vpc", "id">>>> >>) >>,
     queries |-> << <<"thing", "id">>, <<"vpc", "id">>, <<"zone", "id">> >>]

\* get_c(C), describe_c(D, C), get_d(C): every producer needs its own output
SelfCycleService ==
    [methods |-> <<
        Operation("get", <<"c">>, <<Required(<<"c">>)>>, << <<<<"c">>>> >>),
        Operation("describe", <<"c">>,
                  <<Required(<<"d">>), Required(<<"c">>)>>, << <<<<"c">>>> >>),
        Operation("get", <<"d">>, <<Required(<<"c">>)>>, << <<<<"d">>>> >>) >>,
     queries |-> << <<"c">>, <<"d">> >>]

\* describe_xs(Q), list_things(Q), list_items(Y), list_crates: the exact
\* producer of XId and the best-scored fuzzy one cannot be called
FallbackService ==
    [methods |-> <<
        Operation("describe", <<"x">>, <<Required(<<"q">>)>>,
                  << <<<<"x">>, Star, <<"x", "id">>>> >>),
        Operation("list", <<"thing">>, <<Required(<<"q">>)>>,
                  << <<<<"thing">>, Star, <<"x">>>> >>),
        Operation("list", <<"item">>, <<Required(<<"y">>)>>,
                  << <<<<"item">>, Star, <<"x", "id">>>> >>),
        Operation("list", <<"crate">>, <<>>,
                  << <<<<"crate">>, Star, <<"thing">>>> >>) >>,
     queries |-> << <<"x", "id">>, <<"q">> >>]

\* describe_bins(Cap) with outputs Box and Colour, list_caps(Box),
\* list_crates: Cap can be produced only from a Box
StaleService ==
    [methods |-> <<
        Operation("describe", <<"bin">>, <<Required(<<"cap">>)>>,
                  << <<<<"bin">>, Star, <<"box">>>>,
                     <<<<"bin">>, Star, <<"colour">>>> >>),
        Operation("list", <<"cap">>, <<Required(<<"box">>)>>,
                  << <<<<"cap">>, Star, <<"cap">>>> >>),
        Operation("list", <<"crate">>, <<>>,
                  << <<<<"crate">>, Star, <<"box">>>> >>) >>,
     queries |-> << <<"box">>, <<"colour">> >>]

Services == <<ExactService, ChainService, CycleService, SharedService,
              SelfCycleService, FallbackService, StaleService>>

Methods == Services[service].methods
Queries == Services[service].queries

(***************************************************************************)
(* utils.py: KeySpec and OutputPath                                         *)
(***************************************************************************)
LexLess(a, b) ==
    \/ \E i \in 1..Len(a) :
          /\ i <= Len(b)
          /\ a[i] < b[i]
          /\ \A j \in 1..(i - 1) : a[j] = b[j]
    \/ /\ Len(a) < Len(b)
       /\ \A j \in 1..Len(a) : a[j] = b[j]

get_format(ks) ==
    IF ks[Len(ks)] \in ID_FORMATS THEN ks[Len(ks)] ELSE NoFormat

without_format(ks) ==
    IF get_format(ks) # NoFormat THEN SubSeq(ks, 1, Len(ks) - 1) ELSE ks

key_score(length, correct_format, suffix) ==
    <<length, IF correct_format THEN 1 ELSE 0, IF suffix THEN 0 ELSE 1>>

matchers(ks) ==
    LET max_len == Len(without_format(ks))
        windows == {<<l, start>> \in (0..max_len) \X (0..max_len) :
                        start <= max_len - l}
        slice(w) == SubSeq(ks, w[2] + 1, w[2] + w[1])
        bare == {[score |-> key_score(w[1], FALSE, FALSE), k |-> slice(w)] :
                     w \in {x \in windows : x[1] > 0}}
        formatted ==
            {[score |-> key_score(wi[1][1], get_format(ks) = wi[2], FALSE),
              k |-> Append(slice(wi[1]), wi[2])] : wi \in windows \X ID_FORMATS}
        plain == bare \cup formatted
        suffixed ==
            {[score |-> <<mx[1].score[1], mx[1].score[2], 0>>,
              k |-> Append(mx[1].k, mx[2])] : mx \in plain \X SUFFIXES}
    IN  plain \cup suffixed

matches(ks, items) ==
    \E i \in 1..Len(without_format(ks)) :
        \E j \in 1..Len(items) : items[j] = ks[i]

IsSuffix(k, items) ==
    /\ Len(k) <= Len(items)
    /\ SubSeq(items, Len(items) - Len(k) + 1, Len(items)) = k

KeySpec_score(ks, items) ==
    LET found == {m.score : m \in {x \in matchers(ks) : IsSuffix(x.k, items)}}
    IN  IF found = {} THEN NoScore
        ELSE CHOOSE s \in found : \A t \in found : ~LexLess(s, t)

non_branching(path) == SelectSeq(path, LAMBDA seg : seg # Star)

RECURSIVE Words(_)
Words(segs) == IF segs = <<>> THEN <<>> ELSE Head(segs) \o Words(Tail(segs))

for_scoring(path) == Words(non_branching(path))

(***************************************************************************)
(* arg.py: Args, as the sequence of its (key, value) bindings               *)
(***************************************************************************)
MultiArg == [kind |-> "MultiArg"]

RECURSIVE used_methods(_)
used_methods(a) ==
    IF a = <<>> THEN {}
    ELSE (IF Head(a).v.kind = "MethodCallOutput"
          THEN used_methods(Head(a).v.args) ELSE {})
         \cup used_methods(Tail(a))

RECURSIVE children_complexity(_)
children_complexity(a) ==
    IF a = <<>> THEN 0
    ELSE (IF Head(a).v.kind = "MethodCallOutput"
          THEN 1 + children_complexity(Head(a).v.args) ELSE 0)
         + children_complexity(Tail(a))

complexity_score(a) == 1 + children_complexity(a)

(***************************************************************************)
(* method.py: Method.how_to_get and the scores of a call output             *)
(***************************************************************************)
method_tokens(m) == IF m = NoMethod THEN <<>> ELSE Methods[m].path

requires_keys(m) ==
    {without_format(Methods[m].requires[i].key) :
         i \in 1..Len(Methods[m].requires)}

or_neg_inf(s) == IF s = NoScore THEN <<NegInf>> ELSE s

\* method.py:72 names two loop targets for the triples (path, shape,
\* parent) that utils.py:111 yields; the loop body reads the path only, and
\* the model iterates the paths.
Method_how_to_get(m, key, method, E, U) ==
    LET used_keys == U \cup {without_format(key)}
        spec == method_tokens(method) \o key
        method_score == KeySpec_score(spec, Methods[m].path)
        output(i) ==
            [kind |-> "LazyMethodCallOutput",
             method |-> m,
             output_path |-> i,
             path_score |->
                 KeySpec_score(spec, Methods[m].path
                                     \o for_scoring(Methods[m].outputs[i])),
             method_score |-> or_neg_inf(method_score),
             excluded_methods |-> E,
             used_keys |-> used_keys]
    IN  IF used_keys \cap requires_keys(m) # {} THEN <<>>
        ELSE SelectSeq([i \in 1..Len(Methods[m].outputs) |-> output(i)],
                       LAMBDA c : c.path_score # NoScore)

quick_score(c) == c.path_score \o c.method_score

MethodCallOutput_score(c) ==
    quick_score(c) \o <<0 - complexity_score(c.args),
                        0 - Len(Methods[c.method].path),
                        0 - Len(non_branching(
                                    Methods[c.method].outputs[c.output_path]))>>

MethodCallOutput(c, a) ==
    [kind |-> "MethodCallOutput",
     method |-> c.method,
     output_path |-> c.output_path,
     path_score |-> c.path_score,
     method_score |-> c.method_score,
     args |-> a]

(***************************************************************************)
(* service.py: buckets, sort_calls                                          *)
(***************************************************************************)
Patterns(ks) == {x.k : x \in matchers(ks)}

Bucket(m, key, method) ==
    IF Methods[m].path \in Patterns(key) THEN 1
    ELSE IF Methods[m].path \in Patterns(method_tokens(method) \o key) THEN 2
    ELSE IF matches(key, Methods[m].path) THEN 3
    ELSE 4

\* the name filter left out: every operation is a candidate
re_match_any(m) == TRUE
\* re.match('(list|describe|get)', m): the name begins with one of the verbs
re_match(m) == Methods[m].verb \in ReadVerbs

RECURSIVE BucketCalls(_, _, _, _, _, _)
BucketCalls(i, b, key, method, E, U) ==
    IF i > Len(Methods) THEN <<>>
    ELSE (IF /\ i \notin E
             /\ re_match(i)
             /\ Bucket(i, key, method) = b
          THEN Method_how_to_get(i, key, method, E, U) ELSE <<>>)
         \o BucketCalls(i + 1, b, key, method, E, U)

scorer(c, b) ==
    IF b <= 2 THEN <<0 - Len(Methods[c.method].requires)>> \o quick_score(c)
    ELSE quick_score(c)

\* sorted(calls, key=group_key, reverse=True) and groupby: the groups come
\* in descending key order, a group keeps the order of calls
TopKey_lowest(calls, b) ==
    CHOOSE k \in {scorer(calls[i], b) : i \in 1..Len(calls)} :
        \A j \in 1..Len(calls) : ~LexLess(scorer(calls[j], b), k)
TopKey(calls, b) ==
    CHOOSE k \in {scorer(calls[i], b) : i \in 1..Len(calls)} :
        \A j \in 1..Len(calls) : ~LexLess(k, scorer(calls[j], b))

TopGroup(calls, b) ==
    SelectSeq(calls, LAMBDA c : scorer(c, b) = TopKey(calls, b))

BelowTopGroup(calls, b) ==
    SelectSeq(calls, LAMBDA c : scorer(c, b) # TopKey(calls, b))

\* resolved.sort(key=score, reverse=True): stable, equal scores keep order
Rank(rs, i) ==
    Cardinality({j \in 1..Len(rs) :
        \/ LexLess(MethodCallOutput_score(rs[i]), MethodCallOutput_score(rs[j]))
        \/ /\ j < i
           /\ MethodCallOutput_score(rs[j]) = MethodCallOutput_score(rs[i])})

SortResolved(rs) ==
    [n \in 1..Len(rs) |-> rs[CHOOSE i \in 1..Len(rs) : Rank(rs, i) = n - 1]]

(***************************************************************************)
(* The recursion of Service.how_to_get and Method.how_to_call as a stack    *)
(* of frames.  The completer calls how_to_get without args, so every        *)
(* how_to_call receives the empty Args and cache[m] is the entry list of    *)
(* that one cache key.                                                      *)
(***************************************************************************)
NoReturn == [fn |-> "none"]

PlanInitWith(s) ==
    /\ service = s
    /\ cache = [m \in 1..Len(Services[s].methods) |-> <<>>]
    /\ stack = <<>>
    /\ ret = NoReturn
    /\ result = <<>>
    /\ nqueries = 0

PlanInit == \E s \in 1..Len(Services) : PlanInitWith(s)

Top == stack[Len(stack)]
Pop == SubSeq(stack, 1, Len(stack) - 1)

\* a candidate of one how_to_get: an output path of a method
CallId(c) == <<c.method, c.output_path>>

\* failed is history: the candidates whose unlazy() returned None
how_to_get_frame(key, method, E, U) ==
    [fn |-> "how_to_get", key |-> key, method |-> method,
     excluded_methods |-> E, used_keys |-> U,
     bucket |-> 0, calls |-> <<>>,
     group |-> <<>>, resolved |-> <<>>, failed |-> {}, pc |-> "iter"]

how_to_call_frame(c) ==
    [fn |-> "how_to_call", method |-> c.method,
     excluded_methods |-> c.excluded_methods, used_keys |-> c.used_keys,
     new_args |-> <<>>, pc |-> "cache"]

excluded_without_self(E, m) == E
excluded_with_self(E, m) == E \cup {m}

CacheHits(entries, E, U) ==
    {i \in 1..Len(entries) :
        \/ entries[i].ex = E
        \/ /\ ~entries[i].call.none
           /\ used_methods(entries[i].call.args) \cap E = {}
           /\ entries[i].ex \subseteq E
           /\ entries[i].uk \subseteq U}

FirstOf(S) == CHOOSE i \in S : \A j \in S : i <= j

NoneCall == [none |-> TRUE, args |-> <<>>]
ArgsCall(a) == [none |-> FALSE, args |-> a]

\* completion: Service(...).how_to_get(current_param, method=info)
Query(q) ==
    /\ stack = <<>>
    /\ nqueries < MaxQueries
    /\ nqueries' = nqueries + 1
    /\ stack' = <<how_to_get_frame(Queries[q], NoMethod, {}, {})>>
    /\ ret' = NoReturn
    /\ UNCHANGED <<service, cache, result>>
    /\ UNCHANGED <<poolVars, workVars, checkVars, utilVars, deployVars, startVars, reloadVars, tailVars>>

\* the next of the four buckets: calls.extend(m.how_to_get(...)) for its
\* methods
HowToGetBucket ==
    /\ stack # <<>>
    /\ Top.fn = "how_to_get" /\ Top.pc = "iter"
    /\ Top.group = <<>> /\ Top.resolved = <<>> /\ Top.calls = <<>>
    /\ Top.bucket < 4
    /\ stack' = [stack EXCEPT ![Len(stack)] =
                    [@ EXCEPT !.bucket = Top.bucket + 1,
                              !.calls = BucketCalls(1, Top.bucket + 1, Top.key,
                                            Top.method, Top.excluded_methods,
                                            Top.used_keys)]]
    /\ UNCHANGED <<service, cache, ret, result, nqueries>>
    /\ UNCHANGED <<poolVars, workVars, checkVars, utilVars, deployVars, startVars, reloadVars, tailVars>>

\* sort_calls: the next group of the bucket's sorted candidates
SortCallsGroup ==
    /\ stack # <<>>
    /\ Top.fn = "how_to_get" /\ Top.pc = "iter"
    /\ Top.group = <<>> /\ Top.resolved = <<>> /\ Top.calls # <<>>
    /\ stack' = [stack EXCEPT ![Len(stack)] =
                    [@ EXCEPT !.group = TopGroup(Top.calls, Top.bucket),
                              !.calls = BelowTopGroup(Top.calls, Top.bucket)]]
    /\ UNCHANGED <<service, cache, ret, result, nqueries>>
    /\ UNCHANGED <<poolVars, workVars, checkVars, utilVars, deployVars, startVars, reloadVars, tailVars>>

\* c.unlazy() -> LazyMethodCall.unlazy -> Method.how_to_call
Unlazy ==
    /\ stack # <<>>
    /\ Top.fn = "how_to_get" /\ Top.pc = "iter"
    /\ Top.group # <<>>
    /\ stack' = Append([stack EXCEPT ![Len(stack)] = [@ EXCEPT !.pc = "wait"]],
                       how_to_call_frame(Head(Top.group)))
    /\ ret' = NoReturn
    /\ UNCHANGED <<service, cache, result, nqueries>>
    /\ UNCHANGED <<poolVars, workVars, checkVars, utilVars, deployVars, startVars, reloadVars, tailVars>>

\* how_to_call returned to unlazy: a resolved call joins the group's result
UnlazyReturn ==
    /\ stack # <<>>
    /\ Top.fn = "how_to_get" /\ Top.pc = "wait"
    /\ ret.fn = "how_to_call"
    /\ stack' = [stack EXCEPT ![Len(stack)] =
                    [@ EXCEPT !.pc = "iter",
                              !.group = Tail(Top.group),
                              !.resolved =
                                  IF ret.call.none THEN @
                                  ELSE Append(@, MethodCallOutput(
                                           Head(Top.group), ret.call.args)),
                              !.failed =
                                  IF ret.call.none
                                  THEN @ \cup {CallId(Head(Top.group))}
                                  ELSE @]]
    /\ ret' = NoReturn
    /\ UNCHANGED <<service, cache, result, nqueries>>
    /\ UNCHANGED <<poolVars, workVars, checkVars, utilVars, deployVars, startVars, reloadVars, tailVars>>

\* how_to_get returns the first resolved group sorted by score, or []
HowToGetReturn ==
    /\ stack # <<>>
    /\ Top.fn = "how_to_get" /\ Top.pc = "iter"
    /\ Top.group = <<>>
    /\ Top.resolved # <<>> \/ (Top.calls = <<>> /\ Top.bucket = 4)
    /\ stack' = Pop
    /\ ret' = [fn |-> "how_to_get", v |-> SortResolved(Top.resolved)]
    /\ result' = IF Len(stack) = 1 THEN SortResolved(Top.resolved) ELSE result
    /\ UNCHANGED <<service, cache, nqueries>>
    /\ UNCHANGED <<poolVars, workVars, checkVars, utilVars, deployVars, startVars, reloadVars, tailVars>>

\* how_to_call: a cache entry answers
HowToCallCached ==
    /\ stack # <<>>
    /\ Top.fn = "how_to_call" /\ Top.pc = "cache"
    /\ CacheHits(cache[Top.method], Top.excluded_methods, Top.used_keys) # {}
    /\ stack' = Pop
    /\ ret' = [fn |-> "how_to_call", method |-> Top.method,
               excluded_methods |-> Top.excluded_methods,
               used_keys |-> Top.used_keys,
               call |-> cache[Top.method][FirstOf(CacheHits(
                            cache[Top.method], Top.excluded_methods,
                            Top.used_keys))].call]
    /\ UNCHANGED <<service, cache, result, nqueries>>
    /\ UNCHANGED <<poolVars, workVars, checkVars, utilVars, deployVars, startVars, reloadVars, tailVars>>

HowToCallMiss ==
    /\ stack # <<>>
    /\ Top.fn = "how_to_call" /\ Top.pc = "cache"
    /\ CacheHits(cache[Top.method], Top.excluded_methods, Top.used_keys) = {}
    /\ stack' = [stack EXCEPT ![Len(stack)] = [@ EXCEPT !.pc = "requires"]]
    /\ UNCHANGED <<service, cache, ret, result, nqueries>>
    /\ UNCHANGED <<poolVars, workVars, checkVars, utilVars, deployVars, startVars, reloadVars, tailVars>>

NextRequired == Methods[Top.method].requires[Len(Top.new_args) + 1]

how_to_get_from_shape_any(r) == TRUE
\* Service.how_to_get_from_shape: only an enum shape answers by itself
how_to_get_from_shape(r) == r.enum

\* service.how_to_get(k, method=self.name, shape=shape, ...)
HowToCallRequire ==
    /\ stack # <<>>
    /\ Top.fn = "how_to_call" /\ Top.pc = "requires"
    /\ Len(Top.new_args) < Len(Methods[Top.method].requires)
    /\ ~how_to_get_from_shape(NextRequired)
    /\ stack' = Append([stack EXCEPT ![Len(stack)] = [@ EXCEPT !.pc = "wait"]],
                       how_to_get_frame(NextRequired.key, Top.method,
                           excluded_with_self(Top.excluded_methods, Top.method),
                           Top.used_keys))
    /\ ret' = NoReturn
    /\ UNCHANGED <<service, cache, result, nqueries>>
    /\ UNCHANGED <<poolVars, workVars, checkVars, utilVars, deployVars, startVars, reloadVars, tailVars>>

\* how_to_get_from_shape: an enum shape answers at once
HowToGetFromShape ==
    /\ stack # <<>>
    /\ Top.fn = "how_to_call" /\ Top.pc = "requires"
    /\ Len(Top.new_args) < Len(Methods[Top.method].requires)
    /\ how_to_get_from_shape(NextRequired)
    /\ stack' = [stack EXCEPT ![Len(stack)] =
                    [@ EXCEPT !.new_args =
                         Append(@, [k |-> NextRequired.key, v |-> MultiArg])]]
    /\ UNCHANGED <<service, cache, ret, result, nqueries>>
    /\ UNCHANGED <<poolVars, workVars, checkVars, utilVars, deployVars, startVars, reloadVars, tailVars>>

\* new_args[k] = v[0]
HowToCallBind ==
    /\ stack # <<>>
    /\ Top.fn = "how_to_call" /\ Top.pc = "wait"
    /\ ret.fn = "how_to_get" /\ ret.v # <<>>
    /\ stack' = [stack EXCEPT ![Len(stack)] =
                    [@ EXCEPT !.pc = "requires",
                              !.new_args =
                                  Append(@, [k |-> NextRequired.key,
                                             v |-> ret.v[1]])]]
    /\ ret' = NoReturn
    /\ UNCHANGED <<service, cache, result, nqueries>>
    /\ UNCHANGED <<poolVars, workVars, checkVars, utilVars, deployVars, startVars, reloadVars, tailVars>>

\* if not v: new_args = None; the failure is cached and returned
HowToCallFail ==
    /\ stack # <<>>
    /\ Top.fn = "how_to_call" /\ Top.pc = "wait"
    /\ ret.fn = "how_to_get" /\ ret.v = <<>>
    /\ cache' = [cache EXCEPT ![Top.method] =
                    Append(@, [call |-> NoneCall,
                               ex |-> Top.excluded_methods,
                               uk |-> Top.used_keys])]
    /\ stack' = Pop
    /\ ret' = [fn |-> "how_to_call", method |-> Top.method,
               excluded_methods |-> Top.excluded_methods,
               used_keys |-> Top.used_keys, call |-> NoneCall]
    /\ UNCHANGED <<service, result, nqueries>>
    /\ UNCHANGED <<poolVars, workVars, checkVars, utilVars, deployVars, startVars, reloadVars, tailVars>>

\* every required input is bound: the Args are cached and returned
HowToCallStore ==
    /\ stack # <<>>
    /\ Top.fn = "how_to_call" /\ Top.pc = "requires"
    /\ Len(Top.new_args) = Len(Methods[Top.method].requires)
    /\ cache' = [cache EXCEPT ![Top.method] =
                    Append(@, [call |-> ArgsCall(Top.new_args),
                               ex |-> Top.excluded_methods,
                               uk |-> Top.used_keys])]
    /\ stack' = Pop
    /\ ret' = [fn |-> "how_to_call", method |-> Top.method,
               excluded_methods |-> Top.excluded_methods,
               used_keys |-> Top.used_keys,
               call |-> ArgsCall(Top.new_args)]
    /\ UNCHANGED <<service, result, nqueries>>
    /\ UNCHANGED <<poolVars, workVars, checkVars, utilVars, deployVars, startVars, reloadVars, tailVars>>

PlanNext ==
    \/ \E q \in 1..Len(Queries) : Query(q)
    \/ HowToGetBucket
    \/ SortCallsGroup
    \/ Unlazy
    \/ UnlazyReturn
    \/ HowToGetReturn
    \/ HowToCallCached
    \/ HowToCallMiss
    \/ HowToCallRequire
    \/ HowToGetFromShape
    \/ HowToCallBind
    \/ HowToCallFail
    \/ HowToCallStore

(***************************************************************************)
(* plugin.py State.run up to the accept loop, for supervisors spawned by    *)
(* clients that each found no socket path                                   *)
(***************************************************************************)
\* supervisors that may be spawned
MaxSupervisors == 3
Supervisors == 1..MaxSupervisors
NoSocket == 0

StartInit ==
    /\ sup_pc = [s \in Supervisors |-> "unborn"]
    /\ path_socket = NoSocket
    /\ sup_hist = [s \in Supervisors |-> [accepting |-> FALSE, unlinked |-> {}]]

\* client.main: if not os.path.exists(socket_path): subprocess.Popen(...)
Spawn(s) ==
    /\ sup_pc[s] = "unborn"
    /\ path_socket = NoSocket
    /\ sup_pc' = [sup_pc EXCEPT ![s] = "exists"]
    /\ UNCHANGED <<path_socket, sup_hist>>
    /\ UNCHANGED <<poolVars, workVars, planVars, checkVars, utilVars, deployVars, reloadVars, tailVars>>

\* run: if os.path.exists(socket_path): raise FileExistsError(socket_path),
\* outside the with block
RunPathExists(s) ==
    /\ sup_pc[s] = "exists"
    /\ sup_pc' = [sup_pc EXCEPT ![s] =
                    IF path_socket # NoSocket THEN "raised" ELSE "socket"]
    /\ UNCHANGED <<path_socket, sup_hist>>
    /\ UNCHANGED <<poolVars, workVars, planVars, checkVars, utilVars, deployVars, reloadVars, tailVars>>

\* with self.exit_stack: server = socket.socket(...);
\* enter_context(server); callback(self.cleanup, socket_path)
RunSocket(s) ==
    /\ sup_pc[s] = "socket"
    /\ sup_pc' = [sup_pc EXCEPT ![s] = "bind"]
    /\ UNCHANGED <<path_socket, sup_hist>>
    /\ UNCHANGED <<poolVars, workVars, planVars, checkVars, utilVars, deployVars, reloadVars, tailVars>>

\* server.bind(socket_path): creates the path, or raises OSError
\* (EADDRINUSE) when the path exists; the exit stack then unwinds
RunBind(s) ==
    /\ sup_pc[s] = "bind"
    /\ IF path_socket = NoSocket
       THEN /\ path_socket' = s
            /\ sup_pc' = [sup_pc EXCEPT ![s] = "listen"]
       ELSE /\ path_socket' = path_socket
            /\ sup_pc' = [sup_pc EXCEPT ![s] = "cleanup"]
    /\ UNCHANGED sup_hist
    /\ UNCHANGED <<poolVars, workVars, planVars, checkVars, utilVars, deployVars, reloadVars, tailVars>>

\* server.listen(), then the first server.accept()
RunListen(s) ==
    /\ sup_pc[s] = "listen"
    /\ sup_pc' = [sup_pc EXCEPT ![s] = "accept"]
    /\ sup_hist' = [sup_hist EXCEPT ![s].accepting = TRUE]
    /\ UNCHANGED path_socket
    /\ UNCHANGED <<poolVars, workVars, planVars, checkVars, utilVars, deployVars, reloadVars, tailVars>>

\* the accept loop is left: TimeoutError (return), or SIGTERM (sys.exit)
RunLeave(s) ==
    /\ sup_pc[s] = "accept"
    /\ sup_pc' = [sup_pc EXCEPT ![s] = "cleanup"]
    /\ UNCHANGED <<path_socket, sup_hist>>
    /\ UNCHANGED <<poolVars, workVars, planVars, checkVars, utilVars, deployVars, reloadVars, tailVars>>

\* cleanup: if self.pid == os.getpid() and os.path.exists(socket_path)
CleanupExists(s) ==
    /\ sup_pc[s] = "cleanup"
    /\ sup_pc' = [sup_pc EXCEPT ![s] =
                    IF path_socket # NoSocket THEN "unlink" ELSE "exited"]
    /\ UNCHANGED <<path_socket, sup_hist>>
    /\ UNCHANGED <<poolVars, workVars, planVars, checkVars, utilVars, deployVars, reloadVars, tailVars>>

\* cleanup: os.unlink(socket_path) (FileNotFoundError when the path went
\* away since the test); the process ends
CleanupUnlink(s) ==
    /\ sup_pc[s] = "unlink"
    /\ path_socket' = NoSocket
    /\ sup_hist' = [sup_hist EXCEPT ![s].unlinked = @ \cup ({path_socket} \ {NoSocket})]
    /\ sup_pc' = [sup_pc EXCEPT ![s] = "exited"]
    /\ UNCHANGED <<poolVars, workVars, planVars, checkVars, utilVars, deployVars, reloadVars, tailVars>>

StartNext ==
    \E s \in Supervisors :
        \/ Spawn(s)
        \/ RunPathExists(s)
        \/ RunSocket(s)
        \/ RunBind(s)
        \/ RunListen(s)
        \/ RunLeave(s)
        \/ CleanupExists(s)
        \/ CleanupUnlink(s)

(***************************************************************************)
(* plugin.py sigusr1_handler: the supervisor closes its exit stack and      *)
(* re-executes itself; the workers it forked keep the receive end of the    *)
(* old dispatch socketpair.  The inactivity timeouts do not run out here.   *)
(***************************************************************************)
\* holder of a descriptor: the supervisor process
TheSupervisor == 0

NotAccepted == [by |-> "none", st |-> "idle"]

ReloadInit ==
    /\ r_sup = "accept"
    /\ r_sig = FALSE
    /\ r_stack = <<"sock", "server", "cleanup">>
    /\ r_path = "old"
    /\ r_listen = TRUE
    /\ r_send = {TheSupervisor}
    /\ r_disp = <<>>
    /\ r_newq = <<>>
    /\ r_cur = NoClient
    /\ r_w = [w \in Workers |-> "unborn"]
    /\ r_wc = [w \in Workers |-> NoClient]
    /\ r_c = [c \in Clients |-> NotAccepted]

\* run: client, addr = server.accept()
RAccept ==
    /\ r_sup = "accept"
    /\ r_path = "old" /\ r_listen
    /\ \E c \in Clients :
        /\ r_c[c].st = "idle"
        /\ r_c' = [r_c EXCEPT ![c] = [by |-> "old", st |-> "accepted"]]
        /\ r_cur' = c
    /\ r_sup' = "fork"
    /\ UNCHANGED <<r_sig, r_stack, r_path, r_listen, r_send, r_disp, r_newq,
                   r_w, r_wc>>
    /\ UNCHANGED <<poolVars, workVars, planVars, checkVars, utilVars, deployVars, startVars, tailVars>>

\* queue_work: the semaphore shows an idle worker, or os.fork(): the child
\* inherits every descriptor of the supervisor
RFork ==
    /\ r_sup = "fork"
    /\ \/ UNCHANGED <<r_w, r_send>>
       \/ \E w \in Workers :
            /\ r_w[w] = "unborn"
            /\ \A v \in Workers : v < w => r_w[v] # "unborn"
            /\ r_w' = [r_w EXCEPT ![w] = "forked"]
            /\ r_send' = r_send \cup {w}
    /\ r_sup' = "send"
    /\ UNCHANGED <<r_sig, r_stack, r_path, r_listen, r_disp, r_newq, r_cur,
                   r_wc, r_c>>
    /\ UNCHANGED <<poolVars, workVars, planVars, checkVars, utilVars, deployVars, startVars, tailVars>>

\* queue_work: sendfds(self.sock, [sock.fileno()]); return True
RSend ==
    /\ r_sup = "send"
    /\ r_disp' = sendfds(r_disp, r_cur)
    /\ r_c' = [r_c EXCEPT ![r_cur].st = "queued"]
    /\ r_cur' = NoClient
    /\ r_sup' = "accept"
    /\ UNCHANGED <<r_sig, r_stack, r_path, r_listen, r_send, r_newq, r_w,
                   r_wc>>
    /\ UNCHANGED <<poolVars, workVars, planVars, checkVars, utilVars, deployVars, startVars, tailVars>>

child_close_none(holders, w) == holders
\* the child's self.exit_stack.close(): its copies of the listening socket
\* and of the send end are closed; cleanup does nothing, self.pid is the
\* supervisor's
child_close(holders, w) == holders \ {w}

\* queue_work in the child: os.setsid(); self.exit_stack.close();
\* self.worker.run(...)
RWorkerCloseStack(w) ==
    /\ r_w[w] = "forked"
    /\ r_send' = child_close(r_send, w)
    /\ r_w' = [r_w EXCEPT ![w] = "recv"]
    /\ UNCHANGED <<r_sup, r_sig, r_stack, r_path, r_listen, r_disp, r_newq,
                   r_cur, r_wc, r_c>>
    /\ UNCHANGED <<poolVars, workVars, planVars, checkVars, utilVars, deployVars, startVars, tailVars>>

\* run: sockfd = recvfds(self.sock, 1)[0] returns a client fd
RWorkerRecv(w) ==
    /\ r_w[w] = "recv"
    /\ r_disp # <<>>
    /\ r_wc' = [r_wc EXCEPT ![w] = recvfds_fd(r_disp)]
    /\ r_c' = [r_c EXCEPT ![recvfds_fd(r_disp)].st = "serving"]
    /\ r_disp' = recvfds_rest(r_disp)
    /\ r_w' = [r_w EXCEPT ![w] = "work"]
    /\ UNCHANGED <<r_sup, r_sig, r_stack, r_path, r_listen, r_send, r_newq,
                   r_cur>>
    /\ UNCHANGED <<poolVars, workVars, planVars, checkVars, utilVars, deployVars, startVars, tailVars>>

\* _work: the request is the reload command:
\* os.kill(os.getppid(), signal.SIGUSR1); return
RWorkerSigusr1(w) ==
    /\ r_w[w] = "work"
    /\ r_sup \in {"accept", "fork", "send"}
    /\ ~r_sig
    /\ r_sig' = TRUE
    /\ r_w' = [r_w EXCEPT ![w] = "finally"]
    /\ UNCHANGED <<r_sup, r_stack, r_path, r_listen, r_send, r_disp, r_newq,
                   r_cur, r_wc, r_c>>
    /\ UNCHANGED <<poolVars, workVars, planVars, checkVars, utilVars, deployVars, startVars, tailVars>>

\* work: the driver returns (or the reload command did); the exit code is
\* written, the sockets are closed, run loops
RWorkerDone(w) ==
    /\ r_w[w] \in {"work", "finally"}
    /\ r_c' = [r_c EXCEPT ![r_wc[w]].st = "answered"]
    /\ r_wc' = [r_wc EXCEPT ![w] = NoClient]
    /\ r_w' = [r_w EXCEPT ![w] = "recv"]
    /\ UNCHANGED <<r_sup, r_sig, r_stack, r_path, r_listen, r_send, r_disp,
                   r_newq, r_cur>>
    /\ UNCHANGED <<poolVars, workVars, planVars, checkVars, utilVars, deployVars, startVars, tailVars>>

\* run: recvfds reads end of file: no process holds the send end and
\* nothing is queued; except EOFError: return
RWorkerEOF(w) ==
    /\ r_w[w] = "recv"
    /\ r_disp = <<>>
    /\ r_send = {}
    /\ r_w' = [r_w EXCEPT ![w] = "exited"]
    /\ UNCHANGED <<r_sup, r_sig, r_stack, r_path, r_listen, r_send, r_disp,
                   r_newq, r_cur, r_wc, r_c>>
    /\ UNCHANGED <<poolVars, workVars, planVars, checkVars, utilVars, deployVars, startVars, tailVars>>

\* sigusr1_handler is entered, between two bytecodes of the main thread
RHandler ==
    /\ r_sig
    /\ r_sup \in {"accept", "fork", "send"}
    /\ r_sig' = FALSE
    /\ r_sup' = "handler"
    /\ UNCHANGED <<r_stack, r_path, r_listen, r_send, r_disp, r_newq, r_cur,
                   r_w, r_wc, r_c>>
    /\ UNCHANGED <<poolVars, workVars, planVars, checkVars, utilVars, deployVars, startVars, tailVars>>

\* self.exit_stack.close(): the callbacks run last pushed first: cleanup
\* (State.cleanup in the supervisor: self.pid == os.getpid()), the
\* listening socket, the send end of the dispatch socketpair
RHandlerClose ==
    /\ r_sup = "handler"
    /\ r_stack # <<>>
    /\ LET cb == r_stack[Len(r_stack)]
       IN  /\ r_path' = IF cb = "cleanup" THEN cleanup(r_path) ELSE r_path
           /\ r_listen' = IF cb = "server" THEN FALSE ELSE r_listen
           /\ r_send' = IF cb = "sock" THEN r_send \ {TheSupervisor} ELSE r_send
    /\ r_stack' = SubSeq(r_stack, 1, Len(r_stack) - 1)
    /\ UNCHANGED <<r_sup, r_sig, r_disp, r_newq, r_cur, r_w, r_wc, r_c>>
    /\ UNCHANGED <<poolVars, workVars, planVars, checkVars, utilVars, deployVars, startVars, tailVars>>

\* os.execvp(sys.argv[0], sys.argv): the descriptors still open (all are
\* close-on-exec) are closed, among them an accepted client not yet handed
\* to a worker; then start_server: State(), run: the path does not exist,
\* bind, listen
RHandlerExec ==
    /\ r_sup = "handler"
    /\ r_stack = <<>>
    /\ ~os_path_exists(r_path)
    /\ r_path' = "new"
    /\ r_c' = IF r_cur = NoClient THEN r_c
              ELSE [r_c EXCEPT ![r_cur].st = "dropped"]
    /\ r_cur' = NoClient
    /\ r_sup' = "new_accept"
    /\ UNCHANGED <<r_sig, r_stack, r_listen, r_send, r_disp, r_newq, r_w,
                   r_wc>>
    /\ UNCHANGED <<poolVars, workVars, planVars, checkVars, utilVars, deployVars, startVars, tailVars>>

\* the new supervisor accepts a client and queues it on its own socketpair
RNewAccept ==
    /\ r_sup = "new_accept"
    /\ \E c \in Clients :
        /\ r_c[c].st = "idle"
        /\ r_c' = [r_c EXCEPT ![c] = [by |-> "new", st |-> "queued"]]
        /\ r_newq' = sendfds(r_newq, c)
    /\ UNCHANGED <<r_sup, r_sig, r_stack, r_path, r_listen, r_send, r_disp,
                   r_cur, r_w, r_wc>>
    /\ UNCHANGED <<poolVars, workVars, planVars, checkVars, utilVars, deployVars, startVars, tailVars>>

ReloadNext ==
    \/ RAccept
    \/ RFork
    \/ RSend
    \/ \E w \in Workers : RWorkerCloseStack(w)
    \/ \E w \in Workers : RWorkerRecv(w)
    \/ \E w \in Workers : RWorkerSigusr1(w)
    \/ \E w \in Workers : RWorkerDone(w)
    \/ \E w \in Workers : RWorkerEOF(w)
    \/ RHandler
    \/ RHandlerClose
    \/ RHandlerExec
    \/ RNewAccept

\* processes are scheduled and the signal is delivered; clients need not
\* connect and no request need be the reload command
ReloadFairness ==
    /\ WF_vars(RFork)
    /\ WF_vars(RSend)
    /\ WF_vars(RHandler)
    /\ WF_vars(RHandlerClose)
    /\ WF_vars(RHandlerExec)
    /\ \A w \in Workers :
        /\ WF_vars(RWorkerCloseStack(w))
        /\ WF_vars(RWorkerRecv(w))
        /\ WF_vars(RWorkerDone(w))
        /\ WF_vars(RWorkerEOF(w))

(***************************************************************************)
(* src/cloudformation_deploy/__init__.py EventTailer: the wrapped waiter    *)
(* operation describes the stack's events at every poll of the waiter.      *)
(* An event is a stack-level event with the reason "User Initiated"         *)
(* ("initiated"), another stack-level event ("stack"), or the event of a    *)
(* resource ("resource").                                                   *)
(***************************************************************************)
\* events the stack records while the waiter runs
MaxEvents == 4
\* polls of the waiter
MaxPolls == 3
\* events on the first page of describe_stack_events
PageSize == 3

EventKinds == {"initiated", "stack", "resource"}
NoEvent == 0

\* client.describe_stack_events(...)['StackEvents']: the first page, newest
\* event first
describe_stack_events(log) ==
    LET n == IF Len(log) < PageSize THEN Len(log) ELSE PageSize
    IN  [i \in 1..n |-> [EventId |-> Len(log) + 1 - i,
                         kind |-> log[Len(log) + 1 - i]]] \o <<>>

\* events[:i+1] in place of events[:i]: the event last printed is returned
\* again
events_through(events, i) == SubSeq(events, 1, i)
\* events[:i], for the 0-based i of enumerate: the events before position i
events_before(events, i) == SubSeq(events, 1, i - 1)

RECURSIVE enumerate_events(_, _, _)
\* get_events_starting_from: the loop over enumerate(events), from the i-th
enumerate_events(events, event_id, i) ==
    IF i > Len(events) THEN <<>>
    ELSE IF event_id = NoEvent /\ events[i].kind # "resource"
    THEN (IF events[i].kind = "initiated" THEN SubSeq(events, 1, i) ELSE <<>>)
    ELSE IF events[i].EventId = event_id THEN events_before(events, i)
    ELSE enumerate_events(events, event_id, i + 1)

\* a stack without events does not exist: describe_stack_events raises and
\* the result is ()
get_events_starting_from(log, event_id) ==
    IF log = <<>> THEN <<>>
    ELSE enumerate_events(describe_stack_events(log), event_id, 1)

reversed(s) == [i \in 1..Len(s) |-> s[Len(s) + 1 - i]] \o <<>>

TailInit ==
    /\ stack_events = <<>>
    /\ started = FALSE
    /\ last_event = NoEvent
    /\ polls = 0
    /\ printed = <<>>

\* CloudFormation records an event of the stack
StackEvent(k) ==
    /\ Len(stack_events) < MaxEvents
    /\ stack_events' = Append(stack_events, k)
    /\ UNCHANGED <<started, last_event, polls, printed>>
    /\ UNCHANGED <<poolVars, workVars, planVars, checkVars, utilVars, deployVars, startVars, reloadVars>>

\* EventTailer.invoke: one poll of the waiter
Invoke ==
    /\ polls < MaxPolls
    /\ polls' = polls + 1
    /\ started' = TRUE
    /\ LET events == get_events_starting_from(stack_events, last_event) IN
        IF events # <<>>
          THEN /\ last_event' = events[1].EventId
               /\ printed' = printed \o
                      [i \in 1..Len(events) |->
                          [EventId |-> reversed(events)[i].EventId,
                           poll |-> polls + 1]]
          ELSE UNCHANGED <<last_event, printed>>
    /\ UNCHANGED stack_events
    /\ UNCHANGED <<poolVars, workVars, planVars, checkVars, utilVars, deployVars, startVars, reloadVars>>

TailNext ==
    \/ \E k \in EventKinds : StackEvent(k)
    \/ Invoke

(***************************************************************************)
(* src/cloudformation_deploy/__init__.py: the patched _make_api_call and    *)
(* before_execute_changeset                                                 *)
(***************************************************************************)
\* changes of a change set
MaxChanges == 2

\* the variable is not in os.environ
Unset == "(unset)"
EnvValues == {Unset, "no", "0", "No", "ask", "Ask", "yes", "3", "00"}
ApiCalls == <<
    [service |-> "cloudformation", operation |-> "ExecuteChangeSet"],
    [service |-> "cloudformation", operation |-> "DescribeStacks"],
    [service |-> "s3", operation |-> "ExecuteChangeSet"] >>
\* what the user types at the prompt
Responses == {"y", "YES", "n", "No", ""}

\* str.lower, str.isnumeric and int on the values of the model
str_lower(v) == IF v = "Ask" THEN "ask" ELSE IF v = "No" THEN "no"
            ELSE IF v = "YES" THEN "yes" ELSE v
str_isnumeric(v) == v \in {"0", "3", "00", "10"}
int(v) == IF v = "3" THEN 3 ELSE IF v = "10" THEN 10 ELSE 0

NoSleep == -1
DeployInitWith(c, agent, value) ==
    /\ dpc = "call"
    /\ dagent = agent
    /\ dop = c
    /\ denv = value
    /\ dleft = 0
    /\ dhist = [env |-> value, calls |-> <<>>, slept |-> NoSleep]
DeployInit ==
    \E c \in 1..Len(ApiCalls), agent \in BOOLEAN, value \in EnvValues :
        DeployInitWith(c, agent, value)

\* _make_api_call: if service_name == 'cloudformation' and
\* operation_name == 'ExecuteChangeSet'
MakeApiCall ==
    /\ dpc = "call"
    /\ dpc' = IF /\ ApiCalls[dop].service = "cloudformation"
                 /\ ApiCalls[dop].operation = "ExecuteChangeSet"
              THEN "hook" ELSE "super"
    /\ UNCHANGED <<dagent, dop, denv, dleft, dhist>>
    /\ UNCHANGED <<poolVars, workVars, planVars, checkVars, utilVars, startVars, reloadVars, tailVars>>

\* before_execute_changeset: if user_agent.endswith('cloudformation.deploy')
HookUserAgent ==
    /\ dpc = "hook"
    /\ dpc' = IF dagent THEN "describe" ELSE "super"
    /\ UNCHANGED <<dagent, dop, denv, dleft, dhist>>
    /\ UNCHANGED <<poolVars, workVars, planVars, checkVars, utilVars, startVars, reloadVars, tailVars>>

\* client.describe_change_set(...), itself a call through _make_api_call;
\* it returns some changes or raises
DescribeChangeSet ==
    /\ dpc = "describe"
    /\ dhist' = [dhist EXCEPT !.calls = Append(@, "DescribeChangeSet")]
    /\ \/ \E n \in 0..MaxChanges : dleft' = n /\ dpc' = "changes"
       \/ dleft' = dleft /\ dpc' = "raised"
    /\ UNCHANGED <<dagent, dop, denv>>
    /\ UNCHANGED <<poolVars, workVars, planVars, checkVars, utilVars, startVars, reloadVars, tailVars>>

\* for change in changes['Changes']: the change is printed, or a missing
\* key raises
PrintChange ==
    /\ dpc = "changes"
    /\ dleft > 0
    /\ \/ dleft' = dleft - 1 /\ dpc' = dpc
       \/ dleft' = dleft /\ dpc' = "raised"
    /\ UNCHANGED <<dagent, dop, denv, dhist>>
    /\ UNCHANGED <<poolVars, workVars, planVars, checkVars, utilVars, startVars, reloadVars, tailVars>>

\* os.environ.setdefault('AWS_EXECUTE_CHANGESET', '10')
SetDefault ==
    /\ dpc = "changes"
    /\ dleft = 0
    /\ denv' = IF denv = Unset THEN "10" ELSE denv
    /\ dpc' = "decide"
    /\ UNCHANGED <<dagent, dop, dleft, dhist>>
    /\ UNCHANGED <<poolVars, workVars, planVars, checkVars, utilVars, startVars, reloadVars, tailVars>>

denied_no(v) == v = "no"
\* os.environ["AWS_EXECUTE_CHANGESET"] in ('no', '0')
denied(v) == v \in {"no", "0"}

\* the if / elif / elif on the variable
Decide ==
    /\ dpc = "decide"
    /\ dpc' = IF denied(denv) THEN "raised"
              ELSE IF str_lower(denv) = "ask" THEN "ask"
              ELSE IF str_isnumeric(denv) THEN "sleep"
              ELSE "super"
    /\ UNCHANGED <<dagent, dop, denv, dleft, dhist>>
    /\ UNCHANGED <<poolVars, workVars, planVars, checkVars, utilVars, startVars, reloadVars, tailVars>>

\* response = input('Proceed (y/n): '), or input raises EOFError
Ask ==
    /\ dpc = "ask"
    /\ \/ \E response \in Responses :
            dpc' = IF str_lower(response) \in {"y", "yes"} THEN "super"
                   ELSE IF str_lower(response) \in {"n", "no"} THEN "raised"
                   ELSE "ask"
       \/ dpc' = "raised"
    /\ UNCHANGED <<dagent, dop, denv, dleft, dhist>>
    /\ UNCHANGED <<poolVars, workVars, planVars, checkVars, utilVars, startVars, reloadVars, tailVars>>

\* time.sleep(int(os.environ['AWS_EXECUTE_CHANGESET']))
Sleep ==
    /\ dpc = "sleep"
    /\ dhist' = [dhist EXCEPT !.slept = int(denv)]
    /\ dpc' = "super"
    /\ UNCHANGED <<dagent, dop, denv, dleft>>
    /\ UNCHANGED <<poolVars, workVars, planVars, checkVars, utilVars, startVars, reloadVars, tailVars>>

\* return super(self, operation_name, api_params): the original
\* _make_api_call
Super ==
    /\ dpc = "super"
    /\ dhist' = [dhist EXCEPT !.calls = Append(@, ApiCalls[dop].operation)]
    /\ dpc' = "returned"
    /\ UNCHANGED <<dagent, dop, denv, dleft>>
    /\ UNCHANGED <<poolVars, workVars, planVars, checkVars, utilVars, startVars, reloadVars, tailVars>>

DeployNext ==
    \/ MakeApiCall
    \/ HookUserAgent
    \/ DescribeChangeSet
    \/ PrintChange
    \/ SetDefault
    \/ Decide
    \/ Ask
    \/ Sleep
    \/ Super

(***************************************************************************)
(* utils.py called directly: KeySpec.matchers and KeySpec.score as the     *)
(* code computes them, a list built by the loops, sorted, and scanned.     *)
(* Words are non-empty and hold no space, so that a pattern ' a b ' ends   *)
(* the string ' x a b ' exactly when its words end the word tuple.         *)
(***************************************************************************)
\* number of words of a key spec
MaxKeyLen == 2
\* number of words of the items scored against it
MaxItems == 2

KeyWords == {"x", "id", "name"}
ItemWords == {"x", "y", "id", "name", "key"}
RECURSIVE SeqsUpTo(_, _)
SeqsUpTo(S, n) ==
    IF n = 0 THEN {<<>>}
    ELSE SeqsUpTo(S, n - 1)
         \cup {Append(q, w) : q \in {t \in SeqsUpTo(S, n - 1) : Len(t) = n - 1},
                              w \in S}
KeySpecs == SeqsUpTo(KeyWords, MaxKeyLen) \ {<<>>}
ItemLists == SeqsUpTo(ItemWords, MaxItems)

UtilInit ==
    /\ uop = "none"
    /\ uin = <<>>
    /\ uout = <<>>

\* KeySpec.ID_FORMATS and KeySpec.SUFFIXES in their order
ID_FORMATS_tuple == <<"id", "name", "arn", "code", "list", "identifier">>
SUFFIXES_tuple == <<"key">>

\* matchers: the body of the two loops for one l and start
matchers_at(ks, l, start) ==
    LET k == SubSeq(ks, start + 1, start + l) IN
    (IF l > 0 THEN <<[score |-> key_score(l, FALSE, FALSE), k |-> k]>> ELSE <<>>)
    \o [i \in 1..Len(ID_FORMATS_tuple) |->
           [score |-> key_score(l, get_format(ks) = ID_FORMATS_tuple[i], FALSE),
            k |-> Append(k, ID_FORMATS_tuple[i])]]

RECURSIVE matchers_starts(_, _, _)
\* for start in range(0, max_len - l + 1)
matchers_starts(ks, l, start) ==
    IF start > Len(without_format(ks)) - l THEN <<>>
    ELSE matchers_at(ks, l, start) \o matchers_starts(ks, l, start + 1)

RECURSIVE matchers_lengths(_, _)
\* for l in range(max_len, -1, -1)
matchers_lengths(ks, l) ==
    IF l < 0 THEN <<>>
    ELSE matchers_starts(ks, l, 0) \o matchers_lengths(ks, l - 1)

\* matchers += [((*s[:-1], 0), k + x + ' ') for (s, k) in matchers for x in SUFFIXES]
add_suffixes(ms) ==
    ms \o [n \in 1..(Len(ms) * Len(SUFFIXES_tuple)) |->
              LET m == ms[((n - 1) \div Len(SUFFIXES_tuple)) + 1]
                  x == SUFFIXES_tuple[((n - 1) % Len(SUFFIXES_tuple)) + 1]
              IN  [score |-> SubSeq(m.score, 1, Len(m.score) - 1) \o <<0>>,
                   k |-> Append(m.k, x)]]

sort_reverse_none(ms) == ms
\* matchers.sort(reverse=True): by score descending; entries of equal score
\* are ordered by their pattern strings, which score() does not depend on
\* and the model replaces by the order of insertion
sort_reverse(ms) ==
    LET rank == [i \in 1..Len(ms) |->
            Cardinality({j \in 1..Len(ms) : LexLess(ms[i].score, ms[j].score)})
            + Cardinality({j \in 1..(i - 1) : ms[j].score = ms[i].score})] \o <<>>
    IN  [n \in 1..Len(ms) |-> ms[CHOOSE i \in 1..Len(ms) : rank[i] = n - 1]] \o <<>>

matchers_list(ks) ==
    sort_reverse(add_suffixes(matchers_lengths(ks, Len(without_format(ks)))))

\* KeySpec.score: the score of the first matcher that ends the string
score_scan(ms, items) ==
    LET hits == {i \in 1..Len(ms) : IsSuffix(ms[i].k, items)}
    IN  IF hits = {} THEN NoScore
        ELSE ms[CHOOSE i \in hits : \A j \in hits : i <= j].score

\* KeySpec(ks).matchers(), kept by @cache for the calls of score
MatchersCall ==
    /\ uop = "none"
    /\ \E ks \in KeySpecs :
        /\ uin' = [ks |-> ks, items |-> <<>>]
        /\ uout' = [matchers |-> matchers_list(ks), score |-> NoScore]
    /\ uop' = "matchers"
    /\ UNCHANGED <<poolVars, workVars, planVars, checkVars, deployVars, startVars, reloadVars, tailVars>>

\* KeySpec(ks).score(items)
ScoreCall ==
    /\ uop = "matchers"
    /\ \E items \in ItemLists :
        /\ uin' = [uin EXCEPT !.items = items]
        /\ uout' = [uout EXCEPT !.score = score_scan(uout.matchers, items)]
    /\ uop' = "score"
    /\ UNCHANGED <<poolVars, workVars, planVars, checkVars, deployVars, startVars, reloadVars, tailVars>>

(***************************************************************************)
(* utils.py: singularise.  A string is the sequence of its characters.     *)
(***************************************************************************)
\* length of the strings singularise is applied to
MaxWordLen == 3
Letters == {"a", "e", "i", "s", "u"}
\* longer words, which reach the rules for whole suffixes
LongWords == {
    <<"r", "a", "d", "i", "i">>,
    <<"p", "o", "l", "i", "c", "i", "e", "s">>,
    <<"a", "l", "i", "a", "s", "e", "s">>,
    <<"i", "n", "d", "i", "c", "e", "s">>,
    <<"a", "d", "d", "r", "e", "s", "s", "e", "s">>,
    <<"p", "a", "t", "c", "h", "e", "s">>,
    <<"s", "t", "a", "t", "u", "s">>,
    <<"a", "n", "a", "l", "y", "s", "i", "s">>,
    <<"a", "p", "i", "s">>,
    <<"b", "u", "s", "e", "s">>
}
Strings == SeqsUpTo(Letters, MaxWordLen) \cup LongWords

endswith(string, suffix) == IsSuffix(suffix, string)
removesuffix(string, suffix) ==
    IF endswith(string, suffix) THEN SubSeq(string, 1, Len(string) - Len(suffix))
    ELSE string
\* re.search(pattern, string) for a pattern without operators
contains(string, sub) ==
    \E i \in 0..(Len(string) - Len(sub)) : SubSeq(string, i + 1, i + Len(sub)) = sub

s_ies == <<"i", "e", "s">>
s_aliases == <<"a", "l", "i", "a", "s", "e", "s">>
s_indices == <<"i", "n", "d", "i", "c", "e", "s">>
s_alias == <<"a", "l", "i", "a", "s">>
s_index == <<"i", "n", "d", "e", "x">>
\* (address|prefix|patch)es
s_esWords == {<<"a", "d", "d", "r", "e", "s", "s", "e", "s">>,
              <<"p", "r", "e", "f", "i", "x", "e", "s">>,
              <<"p", "a", "t", "c", "h", "e", "s">>}
\* ('ss', 'bus', 'status', 'alias', 'analysis')
s_keepS == {<<"s", "s">>, <<"b", "u", "s">>, <<"s", "t", "a", "t", "u", "s">>,
            s_alias, <<"a", "n", "a", "l", "y", "s", "i", "s">>}
\* ('api',)
s_keepI == {<<"a", "p", "i">>}

singularise(string) ==
    IF endswith(string, s_ies) THEN removesuffix(string, s_ies) \o <<"y">>
    ELSE IF endswith(string, s_aliases) THEN removesuffix(string, s_aliases) \o s_alias
    ELSE IF endswith(string, s_indices) THEN removesuffix(string, s_indices) \o s_index
    ELSE IF \E w \in s_esWords : contains(string, w)
        THEN removesuffix(string, <<"e", "s">>)
    ELSE IF endswith(string, <<"s">>) /\ ~\E k \in s_keepS : endswith(string, k)
        THEN removesuffix(string, <<"s">>)
    ELSE IF endswith(string, <<"i">>) /\ ~\E k \in s_keepI : endswith(string, k)
        THEN removesuffix(string, <<"i">>) \o <<"u", "s">>
    ELSE string

\* singularise(string)
SingulariseCall ==
    /\ uop = "none"
    /\ \E string \in Strings :
        /\ uin' = string
        /\ uout' = singularise(string)
    /\ uop' = "singularise"
    /\ UNCHANGED <<poolVars, workVars, planVars, checkVars, deployVars, startVars, reloadVars, tailVars>>

\* singularise applied to its own result
SingulariseAgain ==
    /\ uop = "singularise"
    /\ uin' = uout
    /\ uout' = singularise(uout)
    /\ uop' = "singularise_again"
    /\ UNCHANGED <<poolVars, workVars, planVars, checkVars, deployVars, startVars, reloadVars, tailVars>>

(***************************************************************************)
(* utils.py: OutputPath.map_shape, from_shape and apply_to on botocore     *)
(* shapes and on the values the service returns for them                   *)
(***************************************************************************)
\* nesting depth of the shape trees
MaxShapeDepth == 2
\* elements of every list and entries of every map of a value
MaxElems == 2

ITERATE == "*"
\* type_name of the scalar shapes of the model
LeafTypes == {"string", "integer", "boolean"}
\* isinstance(shape, StringShape) or shape.type_name in (...)
only_leaves_types == {"string", "integer", "long", "timestamp", "float", "double"}

LeafShape(t) == [t |-> t, sub |-> <<>>]
ListShape(m) == [t |-> "list", sub |-> <<[name |-> ITERATE, shape |-> m]>>]
MapShape(v) == [t |-> "map", sub |-> <<[name |-> ITERATE, shape |-> v]>>]
\* a structure with member A, or with members A and B (a string)
StructureShape1(a) == [t |-> "structure", sub |-> <<[name |-> "A", shape |-> a]>>]
StructureShape2(a, b) ==
    [t |-> "structure",
     sub |-> <<[name |-> "A", shape |-> a], [name |-> "B", shape |-> b]>>]

RECURSIVE Shapes(_)
Shapes(depth) ==
    IF depth = 0 THEN {LeafShape(t) : t \in LeafTypes}
    ELSE Shapes(0)
         \cup {ListShape(m) : m \in Shapes(depth - 1)}
         \cup {MapShape(m) : m \in Shapes(depth - 1)}
         \cup {StructureShape1(m) : m \in Shapes(depth - 1)}
         \cup {StructureShape2(m, LeafShape(t)) :
                    m \in Shapes(depth - 1), t \in LeafTypes}

Digit == <<"1", "2", "3">>
\* the keys of a map value and their characters
MapKey == <<"p1", "p2", "p3">>
chars(str) == IF str \in {MapKey[i] : i \in 1..Len(MapKey)}
                THEN <<"p", Digit[CHOOSE i \in 1..Len(MapKey) : MapKey[i] = str]>>
                ELSE <<str>>

RECURSIVE ValueOf(_, _)
\* a value conforming to the shape; a leaf is named by its place (at)
ValueOf(shape, at) ==
    IF shape.t = "list"
      THEN [k |-> "list", keys |-> <<>>,
            vals |-> [i \in 1..MaxElems |->
                         ValueOf(shape.sub[1].shape, Append(at, Digit[i]))],
            at |-> at]
    ELSE IF shape.t = "map"
      THEN [k |-> "dict", keys |-> [i \in 1..MaxElems |-> MapKey[i]],
            vals |-> [i \in 1..MaxElems |->
                         ValueOf(shape.sub[1].shape, Append(at, MapKey[i]))],
            at |-> at]
    ELSE IF shape.t = "structure"
      THEN [k |-> "dict", keys |-> [i \in 1..Len(shape.sub) |-> shape.sub[i].name],
            vals |-> [i \in 1..Len(shape.sub) |->
                         ValueOf(shape.sub[i].shape, Append(at, shape.sub[i].name))],
            at |-> at]
    ELSE [k |-> shape.t, keys |-> <<>>, vals |-> <<>>, at |-> at]
\* a Python str that is not a leaf of the value: a key of a dict or a
\* character of one
StrValue(str) == [k |-> "str", keys |-> <<>>, vals |-> <<>>, at |-> <<str>>]

RECURSIVE map_shape(_, _, _)
\* map_shape(shape, max_depth=..., only_leaves=True): the paths it yields
map_shape(self, shape, max_depth) ==
    IF max_depth <= 0 THEN <<>>
    ELSE IF shape.t \in {"structure", "list", "map"}
      THEN LET RECURSIVE members(_)
               members(i) ==
                   IF i > Len(shape.sub) THEN <<>>
                   ELSE map_shape(Append(self, shape.sub[i].name),
                                  shape.sub[i].shape, max_depth - 1)
                        \o members(i + 1)
           IN  members(1)
    ELSE IF shape.t \in only_leaves_types THEN <<self>>
    ELSE <<>>

\* from_shape(shape): the paths of list(cls().map_shape(shape))
from_shape(shape) == map_shape(<<>>, shape, 10)

RECURSIVE Flatten(_)
Flatten(ss) == IF ss = <<>> THEN <<>> ELSE Head(ss) \o Flatten(Tail(ss))

\* [y for x in data for y in x] for one x: a list gives its elements, a
\* dict its keys, a str its characters; an int or bool is not iterable
iterate_keys(x) ==
    IF x.k = "list" THEN x.vals
    ELSE IF x.k = "dict" THEN [i \in 1..Len(x.keys) |-> StrValue(x.keys[i])]
    ELSE [i \in 1..Len(chars(x.at[Len(x.at)])) |->
             StrValue(chars(x.at[Len(x.at)])[i])]
iterate(x) == iterate_keys(x)
iterable(x) == x.k \in {"list", "dict", "str", "string"}
\* x[k] for a str k: defined for a dict that has the key
subscriptable(x, k) == x.k = "dict" /\ \E i \in 1..Len(x.keys) : x.keys[i] = k
subscript(x, k) == x.vals[CHOOSE i \in 1..Len(x.keys) : x.keys[i] = k]

RECURSIVE apply_to(_, _)
\* OutputPath.apply_to, data being the list built so far; a TypeError or
\* KeyError of a step ends it
apply_to(self, data) ==
    IF self = <<>> THEN [raised |-> FALSE, data |-> data]
    ELSE IF Head(self) = ITERATE
      THEN IF \E i \in 1..Len(data) : ~iterable(data[i])
             THEN [raised |-> TRUE, data |-> <<>>]
             ELSE apply_to(Tail(self),
                           Flatten([i \in 1..Len(data) |-> iterate(data[i])]))
    ELSE IF \E i \in 1..Len(data) : ~subscriptable(data[i], Head(self))
      THEN [raised |-> TRUE, data |-> <<>>]
      ELSE apply_to(Tail(self),
                    [i \in 1..Len(data) |-> subscript(data[i], Head(self))])

\* OutputPath.from_shape(shape)
FromShapeCall ==
    /\ uop = "none"
    /\ \E shape \in Shapes(MaxShapeDepth) :
        /\ uin' = [shape |-> shape, path |-> <<>>]
        /\ uout' = [paths |-> from_shape(shape), raised |-> FALSE, data |-> <<>>]
    /\ uop' = "from_shape"
    /\ UNCHANGED <<poolVars, workVars, planVars, checkVars, deployVars, startVars, reloadVars, tailVars>>

\* path.apply_to(value) for one of the paths and a value of the shape
ApplyToCall ==
    /\ uop = "from_shape"
    /\ \E i \in 1..Len(uout.paths) :
        LET r == apply_to(uout.paths[i], <<ValueOf(uin.shape, <<>>)>>) IN
        /\ uin' = [uin EXCEPT !.path = uout.paths[i]]
        /\ uout' = [uout EXCEPT !.raised = r.raised, !.data = r.data]
    /\ uop' = "apply_to"
    /\ UNCHANGED <<poolVars, workVars, planVars, checkVars, deployVars, startVars, reloadVars, tailVars>>

UtilNext ==
    \/ MatchersCall
    \/ ScoreCall
    \/ SingulariseCall
    \/ SingulariseAgain
    \/ FromShapeCall
    \/ ApplyToCall

UtilSpecInit == PoolInitWith("absent") /\ WorkInitWith(12345) /\ PlanInitWith(1) /\ CheckInit /\ UtilInit /\ DeployInitWith(1, TRUE, Unset) /\ StartInit /\ ReloadInit /\ TailInit
UtilSpec == UtilSpecInit /\ [][UtilNext]_vars

DeploySpecInit ==
    /\ PoolInitWith("absent") /\ WorkInitWith(12345) /\ PlanInitWith(1)
    /\ CheckInit /\ UtilInit /\ DeployInit /\ StartInit /\ ReloadInit /\ TailInit
DeploySpec == DeploySpecInit /\ [][DeployNext]_vars

StartSpecInit ==
    /\ PoolInitWith("absent") /\ WorkInitWith(12345) /\ PlanInitWith(1)
    /\ CheckInit /\ UtilInit /\ DeployInitWith(1, TRUE, Unset) /\ StartInit /\ ReloadInit /\ TailInit
StartSpec == StartSpecInit /\ [][StartNext]_vars

ReloadSpecInit ==
    /\ PoolInitWith("absent") /\ WorkInitWith(12345) /\ PlanInitWith(1)
    /\ CheckInit /\ UtilInit /\ DeployInitWith(1, TRUE, Unset) /\ StartInit
    /\ ReloadInit /\ TailInit
ReloadSpec == ReloadSpecInit /\ [][ReloadNext]_vars /\ ReloadFairness

TailSpecInit ==
    /\ PoolInitWith("absent") /\ WorkInitWith(12345) /\ PlanInitWith(1)
    /\ CheckInit /\ UtilInit /\ DeployInitWith(1, TRUE, Unset) /\ StartInit
    /\ ReloadInit /\ TailInit
TailSpec == TailSpecInit /\ [][TailNext]_vars

PlannerInit == PoolInitWith("absent") /\ WorkInitWith(12345) /\ PlanInit /\ CheckInit /\ UtilInit /\ DeployInitWith(1, TRUE, Unset) /\ StartInit /\ ReloadInit /\ TailInit
PlannerSpec == PlannerInit /\ [][PlanNext]_vars
PlannerFairSpec == PlannerSpec /\ WF_vars(PlanNext)

WorkerInit == PoolInitWith("absent") /\ WorkInit /\ PlanInitWith(1) /\ CheckInit /\ UtilInit /\ DeployInitWith(1, TRUE, Unset) /\ StartInit /\ ReloadInit /\ TailInit
WorkerSpec == WorkerInit /\ [][WorkNext]_vars

CheckerInit == PoolInitWith("absent") /\ WorkInitWith(12345) /\ PlanInitWith(1) /\ CheckInit /\ UtilInit /\ DeployInitWith(1, TRUE, Unset) /\ StartInit /\ ReloadInit /\ TailInit
CheckerSpec == CheckerInit /\ [][CheckNext]_vars
\* Both threads are scheduled, signals are delivered and timers run out;
\* the driver need not return, clients need not come and need not close.
CheckerFairness ==
    /\ WF_vars(RunWhile)
    /\ WF_vars(RunTimeout)
    /\ WF_vars(WorkRead)
    /\ WF_vars(WorkFinally)
    /\ WF_vars(WorkSendall)
    /\ WF_vars(WorkClose)
    /\ WF_vars(SigtermHandler)
    /\ WF_vars(CheckerWait)
    /\ WF_vars(CheckerTake)
    /\ WF_vars(CheckerClear)
    /\ WF_vars(CheckerSelect)
    /\ WF_vars(CheckerSelectReturn)
    /\ WF_vars(CheckerCheck)
    /\ WF_vars(CheckerQuit)
    /\ WF_vars(CheckerKill)
    /\ WF_vars(CheckerHardExit)
CheckerFairSpec == CheckerInit /\ [][CheckNext]_vars /\ CheckerFairness

Init == PoolInit /\ WorkInitWith(12345) /\ PlanInitWith(1) /\ CheckInit /\ UtilInit /\ DeployInitWith(1, TRUE, Unset) /\ StartInit /\ ReloadInit /\ TailInit
Next == PoolNext
Spec == Init /\ [][Next]_vars

\* Every step of the supervisor and of a worker is taken when it stays
\* enabled (processes are scheduled, alarms fire); clients need not connect.
PoolFairness ==
    /\ WF_vars(SupervisorStart)
    /\ WF_vars(TimeoutElapses)
    /\ WF_vars(Accept)
    /\ WF_vars(SupervisorAlarm)
    /\ WF_vars(QueueWorkAcquire)
    /\ WF_vars(QueueWorkRelease)
    /\ WF_vars(QueueWorkFork)
    /\ WF_vars(QueueWorkAdd)
    /\ WF_vars(QueueWorkSend)
    /\ WF_vars(SigchldHandler)
    /\ \A w \in Workers :
        /\ WF_vars(WorkerCloseStack(w))
        /\ WF_vars(WorkerRelease(w))
        /\ WF_vars(WorkerRecv(w))
        /\ WF_vars(WorkerTimeout(w))
        /\ WF_vars(WorkerEOF(w))
        /\ WF_vars(WorkerAcquire(w))
        /\ WF_vars(WorkerWork(w))

FairSpec == Init /\ [][Next]_vars /\ PoolFairness

\* Spec where, besides, a worker may be ended from outside at any time
KillNext ==
    \/ Next
    \/ \E w \in Workers : WorkerKilled(w)
KillSpec == Init /\ [][KillNext]_vars

(***************************************************************************)
(* Claims                                                                   *)
(***************************************************************************)

\* C1: no client socket is ever received by more than one worker: the fd
\* sent on the dispatch socketpair for one accepted client is taken by one
\* worker and never by two, and two workers never hold the same client.
C1_OneWorkerPerClient ==
    /\ \A c \in Clients : Cardinality(recvBy[c]) <= 1
    /\ \A v, w \in Workers :
        (v # w /\ sockfd[v] # NoClient) => sockfd[v] # sockfd[w]

\* C1 witness: two workers are alive, both clients were dispatched, and each
\* client was received by exactly one worker.
C1_Witness ==
    /\ \A c \in Clients : Cardinality(recvBy[c]) = 1
    /\ \E v, w \in Workers : v # w /\ wpc[v] = "work" /\ wpc[w] = "work"

\* C2: every client connection accepted by the supervisor is eventually
\* received by a live worker and answered with an exit code (the driver
\* returns: WorkerWork is fair), unless the supervisor is killed by SIGTERM.
C2_AcceptedEventuallyAnswered ==
    \A c \in Clients :
        (cstate[c] = "accepted") ~>
            (cstate[c] = "answered" \/ spc = "terminated")

(***************************************************************************)
(* Plans                                                                    *)
(***************************************************************************)
RECURSIVE RepeatsInChain(_, _)
RepeatsInChain(p, above) ==
    /\ p.kind = "MethodCallOutput"
    /\ \/ p.method \in above
       \/ \E i \in 1..Len(p.args) :
              RepeatsInChain(p.args[i].v, above \cup {p.method})

RECURSIVE ReferencedMethods(_)
ReferencedMethods(a) ==
    IF a = <<>> THEN {}
    ELSE (IF Head(a).v.kind = "MethodCallOutput"
          THEN {Head(a).v.method} \cup ReferencedMethods(Head(a).v.args)
          ELSE {})
         \cup ReferencedMethods(Tail(a))

CallFrames == {i \in 1..Len(stack) : stack[i].fn = "how_to_call"}

RequestDone == rpc = "idle" /\ nreq > 0
\* work's finally has written the exit code
AfterFinally == rpc \in {"unwind", "idle"} /\ nreq > 0

\* C6: after a worker finishes any request (normal return, exit-invoking
\* exception, other exception, framing error or reload command) its
\* environment and its working directory equal those before the request.
C6_EnvCwdRestored ==
    RequestDone => (environ = base.env /\ cwd = base.cwd)

\* C6 witness: a finished request whose driver ran under another environment
\* and directory, changed both itself, and ended by an exception.
C6_Witness ==
    /\ RequestDone
    /\ ran.ran /\ ran.env # base.env /\ ran.cwd # base.cwd
    /\ exit_code = IntCode(1)
    /\ nreq = MaxRequests

\* C7: after a worker returns from any request, and after any number of
\* successive requests, fds 0, 1 and 2 refer to the same open files as
\* before the worker's first request, and the three descriptors received
\* from the client are closed (no descriptor refers to the client's stdio).
C7_StdFdsRestored ==
    RequestDone =>
        /\ \A d \in StdFds : fdtable[d] = base.std[d]
        /\ \A i \in 1..Len(fds) : fdtable[fds[i]] = Closed
        /\ \A f \in Fds : \A r \in 1..nreq : fdtable[f] \notin ClientStdFiles(r)

\* C7 witness: the second request of a worker has finished, its three
\* descriptors were received and the driver ran on them.
C7_Witness ==
    /\ RequestDone
    /\ nreq = MaxRequests
    /\ Len(fds) = 3
    /\ ran.ran
    /\ \A d \in StdFds : fd_cache[d] # NoFd

\* C8: for every request whose three descriptors are received the worker
\* writes on the client socket exactly the 8-byte PID of the worker first
\* and exactly one exit code afterwards, and nothing else.
C8_PidThenExitCode ==
    Len(fds) = 3 =>
        /\ Len(sockout) <= 2
        /\ rpc \notin {"recvfds", "sendpid"} =>
              /\ Len(sockout) >= 1
              /\ sockout[1] = [kind |-> "pid", bytes |-> pack_le(pid, 8)]
              /\ Len(sockout[1].bytes) = 8
        /\ Len(sockout) = 2 => sockout[2] = exit_message(exit_code)
        /\ AfterFinally <=> Len(sockout) = 2

\* C8 witness: a request whose driver exited with a code has written both
\* the PID and that exit code.
C8_Witness ==
    /\ Len(fds) = 3
    /\ ran.ran
    /\ Len(sockout) = 2
    /\ exit_code = IntCode(3)

\* C9: for every request client.main sends, the exit status of the client
\* process equals the exit code the worker wrote on the socket.
C9_ClientExitIsWorkerExit ==
    (req.src = "client.main" /\ cpc = "exited" /\ AfterFinally /\ exit_code.t = "int")
        => client_exit = exit_code.v

\* C10: for any (env, cwd, argv) of a client.main invocation (other than
\* the reload command) the worker runs the driver with environment env,
\* working directory cwd and argv.
C10_FrameRoundTrip ==
    (req.src = "client.main" /\ AfterFinally /\ ~sigusr1)
        => (ran.ran /\ ran.env = req.env /\ ran.cwd = req.cwd
                    /\ ran.argv = JStrs(req.argv))

\* C11: once the client of a request closes its socket while the request is
\* being serviced (after the request line was read, before the worker
\* finishes), the liveness thread's SIGTERM ends the servicing of that
\* request (unless the worker finishes it first), and once the signal was
\* sent and handled the worker receives no other client.
C11_ClientCloseTerminatesWorker ==
    /\ [][(checker_pc = "sleep" /\ ~sigterm) => served' = served]_vars
    /\ \A r \in Requests : (r \in cancelled) ~> ~Servicing(r)

\* C12: the supervisor leaves accept by idle timeout only in a state where
\* worker_pids is empty; when the alarm fires while a worker pid is in the
\* set, the timer is re-armed and the supervisor stays in accept.
C12_IdleExitOnlyWithoutWorkers ==
    /\ [][(spc = "accept" /\ spc' = "exited") => worker_pids = {}]_vars
    /\ [][(SupervisorAlarm /\ worker_pids # {}) =>
              (spc' = "accept" /\ Supervisor \notin expired' /\ rearmed')]_vars

\* C12 witness: the supervisor has exited by idle timeout with no worker
\* pid left, after an earlier alarm found a worker alive and was re-armed.
C12_Witness ==
    /\ spc = "exited"
    /\ rearmed
    /\ worker_pids = {}
    /\ \E w \in Workers : wpc[w] = "exited"

\* every process of the server is gone and the socket path is unlinked
Shutdown ==
    /\ spc \in {"exited", "terminated"}
    /\ \A w \in Workers : wpc[w] \in {"unborn", "exited"}
    /\ socket_path = "absent"

\* C13: when no client connects any more, every idle worker exits after
\* its inactivity timeout, the supervisor then exits by idle timeout (or
\* SIGTERM) and the socket path is unlinked: a server that started shuts
\* down for good.
C13_EventualShutdown ==
    (spc = "accept") ~> [](Shutdown)

\* C13 witness: the server is shut down by idle timeout after both clients
\* were served by workers that later timed out.
C13_Witness ==
    /\ Shutdown
    /\ spc = "exited"
    /\ \A c \in Clients : cstate[c] = "answered"
    /\ \A w \in Workers : wpc[w] = "exited"

\* C14: State.run on a socket path that exists raises FileExistsError: it
\* never binds or listens (never reaches accept), and what is at the path
\* stays as it was.
C14_ExistingPathRefused ==
    /\ [](socket_path = "foreign" => spc \in {"start", "raised"})
    /\ [][socket_path = "foreign" => socket_path' = "foreign"]_vars
    /\ [](spc = "raised" => socket_path = "foreign")

\* C14 witness: run has raised FileExistsError on an existing path.
C14_Witness ==
    /\ spc = "raised"
    /\ socket_path = "foreign"

\* C19: a client that reads fewer than 8 bytes of worker PID (here: none,
\* the server closed the connection unanswered) execs the underlying tool.
C19_ShortPidReadExecsTool ==
    \A c \in Clients : cstate[c] = "closed" => cresult[c].t = "exec"


\* the frame of the request has the documented shape [map, string, ...]
WellFormedFrame(f) ==
    /\ f.valid /\ f.list
    /\ Len(f.items) >= 2
    /\ f.items[1].t = "dict" /\ f.items[1].strs
    /\ f.items[2].t = "str"
\* the argv of a frame: what follows the environment and the directory
FrameArgv(f) == SubSeq(f.items, 3, Len(f.items))
ReloadArgv == JStrs(<<".start-command-server", "/reload">>)

\* C15: a request whose frame is [env, cwd, ".start-command-server",
\* "/reload"] makes the worker send SIGUSR1 to the supervisor and return
\* without running the driver, and no request with a different argv makes
\* the worker send SIGUSR1.
C15_ReloadOnlyForReloadArgv ==
    (AfterFinally /\ req.src = "raw" /\ req.nfds = 3 /\ WellFormedFrame(req.frame)) =>
        /\ sigusr1 <=> FrameArgv(req.frame) = ReloadArgv
        /\ sigusr1 => ~ran.ran

\* what the worker is to report for the driver's outcome o
ExpectedExitCode(o) ==
    IF o.kind = "return" THEN (IF o.code.t = "none" THEN IntCode(0) ELSE o.code)
    ELSE IF o.kind = "exit" THEN o.code
    ELSE IntCode(1)

\* C16: when the driver ran, the exit code the worker writes to the client
\* is the driver's return value (0 when it returns nothing), the code of
\* SystemExit when the driver raised it, and 1 when the driver raised any
\* other exception.
C16_ExitCodeOfDriverOutcome ==
    (AfterFinally /\ ran.ran) =>
        /\ exit_code = ExpectedExitCode(DriverOutcomes[ran.outcome])
        /\ sockout[Len(sockout)] =
              exit_message(ExpectedExitCode(DriverOutcomes[ran.outcome]))

\* C16 witness: the driver returned nothing on the second request of a
\* worker and the worker wrote the exit code 0 ("0" is the byte 48).
C16_Witness ==
    /\ AfterFinally
    /\ nreq = MaxRequests
    /\ ran.ran
    /\ DriverOutcomes[ran.outcome] = [kind |-> "return", code |-> NoneCode]
    /\ Len(sockout) = 2
    /\ sockout[2] = [kind |-> "exit", bytes |-> <<48>>]

\* the frame is invalid JSON, is not a list, its first element is not a
\* map, or its second element is not a string
MalformedFrame(f) ==
    \/ ~f.valid
    \/ ~f.list
    \/ (Len(f.items) >= 1 /\ f.items[1].t # "dict")
    \/ (Len(f.items) >= 2 /\ f.items[2].t # "str")

\* C17: for every malformed frame the worker reports exit code 1, runs no
\* driver and sends no signal to the supervisor, and it is back in its loop
\* with its environment, directory and standard descriptors as before.
C17_MalformedFrameRejected ==
    (req.nfds = 3 /\ MalformedFrame(req.frame)) =>
        /\ AfterFinally =>
              /\ exit_code = IntCode(1)
              /\ sockout[Len(sockout)] = exit_message(IntCode(1))
              /\ ~ran.ran
              /\ ~sigusr1
        /\ RequestDone =>
              /\ environ = base.env /\ cwd = base.cwd
              /\ \A d \in StdFds : fdtable[d] = base.std[d]

\* C18: when the worker writes the exit code, nothing the request wrote to
\* stdout or stderr is still buffered: both were flushed, to the client's
\* descriptors, before; and the socket is the last thing the worker closes.
C18_FlushBeforeExitCode ==
    /\ AfterFinally => buffered = {}
    /\ \A st \in {1, 2} :
          flushed_to[st] # Closed => flushed_to[st] \in ClientStdFiles(nreq)
    /\ (rpc = "unwind" /\ exit_stack # <<>>) => exit_stack[1].op = "sock_close"

\* services in which every producer of every key needs that key itself,
\* directly or through its other required inputs
CyclicServices == {CycleService, SelfCycleService}

ReturningFrame ==
    /\ stack # <<>>
    /\ Top.fn = "how_to_get" /\ Top.pc = "iter"
    /\ Top.group = <<>> /\ Top.resolved # <<>>
\* the candidates of bucket b of the how_to_get on top of the stack
FrameCalls(b) ==
    BucketCalls(1, b, Top.key, Top.method, Top.excluded_methods, Top.used_keys)
SeqIds(calls) == {CallId(calls[i]) : i \in 1..Len(calls)}

Matching == {i \in 1..Len(uout.matchers) : IsSuffix(uout.matchers[i].k, uin.items)}

\* C22: KeySpec.score(items) is the maximum score over the matchers whose
\* pattern is a suffix of the items and null exactly when no matcher
\* matches; matchers() is sorted by score descending and its scores are
\* tuples of one arity.  (The set of matchers and the score are those the
\* planner's KeySpec_score uses.)
C22_ScoreIsMaxOfMatching ==
    /\ uop = "score" =>
        /\ (uout.score = NoScore) <=> (Matching = {})
        /\ Matching # {} =>
              /\ \E i \in Matching : uout.score = uout.matchers[i].score
              /\ \A i \in Matching : ~LexLess(uout.score, uout.matchers[i].score)
        /\ uout.score = KeySpec_score(uin.ks, uin.items)
    /\ uop \in {"matchers", "score"} =>
        /\ \A i \in 1..Len(uout.matchers) : \A j \in 1..Len(uout.matchers) :
              i < j => ~LexLess(uout.matchers[i].score, uout.matchers[j].score)
        /\ \A i \in 1..Len(uout.matchers) : Len(uout.matchers[i].score) = 3
        /\ {uout.matchers[i] : i \in 1..Len(uout.matchers)} = matchers(uin.ks)

\* C22 witness: the key "name id" scored against items ending in "name":
\* the pattern "name" is both the bare window (score 1, 0, 1) and the empty
\* window with the format name (score 0, 0, 1); the greater one is returned.
C22_Witness ==
    /\ uop = "score"
    /\ uin.ks = <<"name", "id">>
    /\ uin.items = <<"x", "name">>
    /\ uout.score = <<1, 0, 1>>
    /\ \E i \in Matching : uout.matchers[i].score = <<0, 0, 1>>

\* C23: singularise is idempotent: applied to its own result it returns
\* that result.
C23_SingulariseIdempotent ==
    uop = "singularise_again" => uout = uin

RECURSIVE LeavesOf(_)
\* the scalar leaves of a value
LeavesOf(v) ==
    IF v.k \in {"list", "dict"}
      THEN UNION {LeavesOf(v.vals[i]) : i \in 1..Len(v.vals)}
      ELSE {v}
RECURSIVE LeavesAt(_, _)
\* what a path denotes in a value: at "*" the elements of a list or the
\* values of a map, at a name that member
LeavesAt(v, path) ==
    IF path = <<>> THEN {v}
    ELSE IF Head(path) = ITERATE
      THEN UNION {LeavesAt(v.vals[i], Tail(path)) : i \in 1..Len(v.vals)}
      ELSE LeavesAt(subscript(v, Head(path)), Tail(path))

\* C24: for every shape tree of structures, lists, maps and scalar leaves,
\* each path of from_shape applied to a value of the shape yields, without
\* an error, exactly the scalar leaves the path denotes (at "*" the elements
\* of a list or the values of a map), and every scalar leaf of the value is
\* denoted by some path of from_shape.
C24_PathsReachLeaves ==
    /\ uop = "apply_to" =>
          /\ ~uout.raised
          /\ {uout.data[i] : i \in 1..Len(uout.data)}
                = LeavesAt(ValueOf(uin.shape, <<>>), uin.path)
          /\ \A i \in 1..Len(uout.data) : uout.data[i].k \in LeafTypes
    /\ uop = "from_shape" =>
          LeavesOf(ValueOf(uin.shape, <<>>))
             = UNION {LeavesAt(ValueOf(uin.shape, <<>>), uout.paths[i]) :
                          i \in 1..Len(uout.paths)}

\* the gate applies to the call and the variable was "no" or "0"
GateDenies ==
    /\ ApiCalls[dop] = [service |-> "cloudformation", operation |-> "ExecuteChangeSet"]
    /\ dagent
    /\ dhist.env \in {"no", "0"}

\* C25: when the gate applies and AWS_EXECUTE_CHANGESET is "no" or "0", the
\* hook raises and the original ExecuteChangeSet call is never made; with
\* "0" there is no pause.
C25_DeniedNeverExecutes ==
    GateDenies =>
        /\ \A i \in 1..Len(dhist.calls) : dhist.calls[i] # "ExecuteChangeSet"
        /\ dhist.slept = NoSleep
        /\ dpc \notin {"super", "returned", "sleep", "ask"}

\* C25 witness: with the value "0" the change set was described, its
\* changes were printed and the hook has raised.
C25_Witness ==
    /\ GateDenies
    /\ dhist.env = "0"
    /\ dpc = "raised"
    /\ dhist.calls = <<"DescribeChangeSet">>
    /\ denv = "0" /\ dleft = 0

\* C26: a supervisor that did not reach its accept loop never unlinks the
\* socket path, so while a supervisor is in its accept loop the path exists
\* and names that supervisor's listening socket.
C26_AcceptingOwnsPath ==
    \A s \in Supervisors :
        /\ sup_pc[s] = "accept" => path_socket = s
        /\ ~sup_hist[s].accepting => sup_hist[s].unlinked = {}

\* workers that released the semaphore and have not yet run the acquire of
\* run's finally clause: blocked in recvfds, or just out of it
ReleasedWorkers == {w \in Workers : wpc[w] \in {"recv", "got", "quit"}}

\* C27: the semaphore's value is at most the number of workers that have
\* released it and are still waiting on the dispatch socket.
C27_SemaphoreCountsIdleWorkers ==
    semaphore <= Cardinality(ReleasedWorkers)

\* workers that have exited and that the SIGCHLD handler has reaped
ReapedWorkers == {w \in Workers : wpc[w] = "exited" /\ w \notin zombies}

\* C28: once the SIGCHLD handler has run for an exited worker and queue_work
\* has returned, worker_pids holds no PID of an exited worker.
C28_NoExitedPidAfterReap ==
    spc = "accept" => worker_pids \cap ReapedWorkers = {}

\* Method.how_to_call and Service.how_to_get computed with no cache entry
\* to hit: lines 36-46 of method.py for every call, at every depth
RECURSIVE how_to_call_uncached(_, _, _, _, _)
RECURSIVE ResolveGroup(_)
RECURSIVE FirstResolvedGroup(_, _)
RECURSIVE how_to_get_uncached(_, _, _, _, _)

how_to_call_uncached(m, E, U, i, new_args) ==
    IF i > Len(Methods[m].requires) THEN ArgsCall(new_args)
    ELSE IF how_to_get_from_shape(Methods[m].requires[i])
    THEN how_to_call_uncached(m, E, U, i + 1,
             Append(new_args, [k |-> Methods[m].requires[i].key, v |-> MultiArg]))
    ELSE LET v == how_to_get_uncached(1, Methods[m].requires[i].key, m,
                                      excluded_with_self(E, m), U)
         IN  IF v = <<>> THEN NoneCall
             ELSE how_to_call_uncached(m, E, U, i + 1,
                      Append(new_args, [k |-> Methods[m].requires[i].key,
                                        v |-> v[1]]))

ResolveGroup(group) ==
    IF group = <<>> THEN <<>>
    ELSE LET c == Head(group)
             call == how_to_call_uncached(c.method, c.excluded_methods,
                                          c.used_keys, 1, <<>>)
         IN  (IF call.none THEN <<>> ELSE <<MethodCallOutput(c, call.args)>>)
             \o ResolveGroup(Tail(group))

FirstResolvedGroup(calls, b) ==
    IF calls = <<>> THEN <<>>
    ELSE LET resolved == ResolveGroup(TopGroup(calls, b))
         IN  IF resolved # <<>> THEN resolved
             ELSE FirstResolvedGroup(BelowTopGroup(calls, b), b)

how_to_get_uncached(b, key, method, E, U) ==
    IF b > 4 THEN <<>>
    ELSE LET resolved == FirstResolvedGroup(BucketCalls(1, b, key, method, E, U), b)
         IN  IF resolved # <<>> THEN SortResolved(resolved)
             ELSE how_to_get_uncached(b + 1, key, method, E, U)

C30_UsedMethodsTransitive ==
    (ret.fn = "how_to_call" /\ ~ret.call.none) =>
        used_methods(ret.call.args) = ReferencedMethods(ret.call.args)

\* the exit code of request r has been written (or the write has raised)
ExitCodeWritten(r) ==
    \/ served > r
    \/ served = r /\ run_pc \in {"close", "while", "recvfds"}

\* the liveness thread has decided to end the worker for the socket of r
TerminatedFor(r) == checker_pc \in {"kill", "sleep"} /\ sock = r

\* C31: when the client of a request still holds its socket open once the
\* exit code has been written, the liveness thread never sets should_quit
\* or sends SIGTERM for that request, whenever the client closes later.
C31_NoSigtermAfterCompletion ==
    \A r \in Requests :
        []((ExitCodeWritten(r) /\ peer[r] = "open") => [](~TerminatedFor(r)))

\* C31 witness: the client of request 1 closed after its exit code, the
\* liveness thread saw the close, found current_sock changed and waits
\* again, while the worker services request 2.
C31_Witness ==
    /\ alive = "running" /\ ~should_quit /\ ~sigterm
    /\ served = 2 /\ run_pc = "serving"
    /\ peer[1] = "closed" /\ 1 \notin cancelled
    /\ sock = 1 /\ checker_pc = "wait"

\* C32: when the handler of SIGUSR1 re-executes the supervisor, the socket
\* path is unlinked and the listening socket and the supervisor's end of
\* the dispatch channel are closed; a request an old worker is servicing is
\* still answered; an old worker services only clients the old supervisor
\* accepted; and once the new supervisor runs every old worker exits.
C32_ReloadLeavesOldWorkersToFinish ==
    /\ []((r_sup = "handler" /\ r_stack = <<>>) =>
            (r_path = "absent" /\ ~r_listen /\ TheSupervisor \notin r_send))
    /\ \A c \in Clients : (r_c[c].st = "serving") ~> (r_c[c].st = "answered")
    /\ [](\A w \in Workers : r_wc[w] # NoClient => r_c[r_wc[w]].by = "old")
    /\ [](\A c \in Clients : r_c[c].st \in {"serving", "answered"} => r_c[c].by = "old")
    /\ (r_sup = "new_accept") ~> [](\A w \in Workers : r_w[w] \in {"unborn", "exited"})

\* C32 witness: the supervisor has re-executed; both old workers have
\* exited on end of file after answering their clients.
C32_Witness ==
    /\ r_sup = "new_accept" /\ r_path = "new"
    /\ \A w \in Workers : r_w[w] = "exited"
    /\ \A c \in Clients : r_c[c] = [by |-> "old", st |-> "answered"]

\* C33: the socket path is unlinked when the supervisor exits by SIGTERM
\* or idle timeout, and only then: no step of a worker (closing the
\* inherited exit stack, exiting by timeout, end of file or a signal)
\* removes it.
C33_OnlySupervisorExitUnlinks ==
    /\ [](spc \in {"exited", "terminated"} => socket_path = "absent")
    /\ [][(socket_path = "bound" /\ socket_path' # "bound") =>
              (spc = "accept" /\ spc' = "exited") \/ spc' = "terminated"]_vars
    /\ [][(\E w \in Workers : wpc'[w] # wpc[w]) => socket_path' = socket_path]_vars

\* C33 witness: every worker was forked, closed the inherited exit stack
\* and has exited; the supervisor still accepts on the bound path.
C33_Witness ==
    /\ spc = "accept"
    /\ socket_path = "bound"
    /\ \A w \in Workers : wpc[w] = "exited"

\* the env map and the cwd string a frame carries, as _work reads them
FrameEnv(f) == f.items[1].m
FrameCwd(f) == f.items[2].s

\* C34: while the driver runs for a request, the worker's environment is
\* exactly the env map of that request's frame and its working directory the
\* frame's cwd, so neither depends on the supervisor's environment or on what
\* the worker served before.
C34_DriverSeesOnlyRequestEnv ==
    ran.ran => (ran.env = FrameEnv(req.frame) /\ ran.cwd = FrameCwd(req.frame))

\* C34 witness: the driver ran for the worker's second request under an env
\* map that lacks the supervisor's HOME variable.
C34_Witness ==
    /\ ran.ran
    /\ nreq = MaxRequests
    /\ "HOME" \in DOMAIN ServerEnv
    /\ "HOME" \notin DOMAIN ran.env
    /\ ran.env = FrameEnv(req.frame)
    /\ ran.cwd # ServerCwd

\* the Methods of a plan: its root and those bound at any depth beneath it
PlanMethods(p) ==
    IF p.kind = "MethodCallOutput"
      THEN {p.method} \cup ReferencedMethods(p.args)
      ELSE {}

RECURSIVE AllRequiredBound(_, _)
AllRequiredBound(m, a) ==
    /\ Len(a) = Len(Methods[m].requires)
    /\ \A i \in 1..Len(a) :
           /\ a[i].k = Methods[m].requires[i].key
           /\ a[i].v.kind = "MethodCallOutput" =>
                  AllRequiredBound(a[i].v.method, a[i].v.args)

\* some required input of m has no plan: Service.how_to_get, asked as line
\* 39 of method.py asks it, returns nothing
NoPlanFor(m, E, U) ==
    \E i \in 1..Len(Methods[m].requires) :
        /\ ~how_to_get_from_shape(Methods[m].requires[i])
        /\ how_to_get_uncached(1, Methods[m].requires[i].key, m,
                               excluded_with_self(E, m), U) = <<>>

C37_ExitFrameIsDecimal ==
    \A i \in 1..Len(sockout) :
        sockout[i].kind = "exit" => is_int_literal(sockout[i].bytes)

\* C38: across the polls of a waiter the Event Tailer prints each event at
\* most once and oldest first, a poll printing only events newer than the
\* last one printed before; the first event printed is the stack's
\* "User Initiated" event, so nothing older than it is printed.
C38_EventsOnceInOrder ==
    /\ \A i, j \in 1..Len(printed) :
           i < j => printed[i].EventId < printed[j].EventId
    /\ printed # <<>> => stack_events[printed[1].EventId] = "initiated"

\* C38 witness: two polls printed events, three or more in all, and the
\* stack has events older than the first one printed.
C38_Witness ==
    /\ Len(printed) >= 3
    /\ printed[1].EventId > 1
    /\ printed[1].poll # printed[Len(printed)].poll
    /\ polls = MaxPolls

====
